---- MODULE Spec2Model ----
(***************************************************************************)
(* Model of the dynamic routing session of app/main_window.py              *)
(* (class MainWindow): the road graph with virtual nodes, the effect       *)
(* overlay and its recompute pass, point selection, the stop list and      *)
(* the route computations.                                                 *)
(*                                                                         *)
(* Numbers.  Positions are integer pairs.  A ratio along an edge is the    *)
(* exact fraction <<num, den>> (the code's float t = dot / len_sq).        *)
(* Weights are integers in units of 1/16, so that every product            *)
(* weight * ratio of the model is an exact integer; float('inf') is Inf.   *)
(*                                                                         *)
(* Node ids.  A regular node id is <<k>>, k >= 1.  The formatted string    *)
(* f"VIRTUAL_{u}_{v}_{ratio:.3f}" is <<0, u, v, r3>> with r3 the ratio in  *)
(* thousandths as the format rounds it.  None is <<>>.                     *)
(***************************************************************************)
EXTENDS Integers, Sequences, FiniteSets, TLC

VARIABLES
    graph,                    \* self.pathfinder.graph: [nodes, pos, adj, w]
    original_weights,         \* self._original_weights
    node_positions,           \* self.node_positions, in insertion order
    start_node,               \* self.start_node
    end_node,                 \* self.end_node
    waypoints,                \* self.sidebar.waypoints
    original_waypoint_order,  \* self.sidebar.original_waypoint_order
    optimize,                 \* self.sidebar.optimize_route_checkbox
    jams,                     \* map_viewer.traffic_jam_lines (effect data)
    blocks,                   \* map_viewer.block_way_visuals (effect data)
    lights,                   \* self._active_traffic_lights
    drawn_path,               \* the route map_viewer displays (<<>>: none)
    report,                   \* what the last handler reported
    suppress_path_errors,     \* self._suppress_path_errors
    optimal_order,            \* what the last call of _solve_tsp_route on its own returned
    discarded_clocks,         \* timer states of the clocks dropped from _active_traffic_lights
    closed,                   \* closeEvent has run
    clock,                    \* one TrafficLightInstance, taken apart from the window
    pc,                       \* where the handler that runs is ("idle": none runs)
    dialogs                   \* message boxes open, each with its handler waiting in it

vars == <<graph, original_weights, node_positions, start_node, end_node,
          waypoints, original_waypoint_order, optimize, jams, blocks, lights,
          drawn_path, report, suppress_path_errors, optimal_order, discarded_clocks,
          closed, clock, pc, dialogs>>

---------------------------------------------------------------------------
(* Bounds of the model *)

MaxVirtual == 2
MaxStops == 2
MaxJams == 1
MaxBlocks == 1
MaxLights == 1
MaxWeight == 120
MaxDuration == 3
MaxDialogs == 2

---------------------------------------------------------------------------
(* Program constants *)

Inf == 1000000
EffectThreshold == 20
NodeSnapSq == 225
EdgeSnap == 25

None == <<>>

A == <<1>>
B == <<2>>
C == <<3>>
D == <<4>>

IsVirtual(n) == n # None /\ n[1] = 0

VirtualId(u, v, r3) == <<0, u, v, r3>>

Min(a, b) == IF a < b THEN a ELSE b
Max(a, b) == IF a > b THEN a ELSE b

---------------------------------------------------------------------------
(* Sequences as Python lists and insertion-ordered dicts *)

Range(s) == {s[i] : i \in 1..Len(s)}

RemoveAt(s, i) == [j \in 1..(Len(s) - 1) |-> IF j < i THEN s[j] ELSE s[j + 1]]

Without(s, x) == SelectSeq(s, LAMBDA y : y # x)


\* node_positions is a sequence of <<id, pos>> pairs (a dict keeps insertion order)
NPKeys(np) == {np[i][1] : i \in 1..Len(np)}

NPGet(np, id) == (CHOOSE i \in 1..Len(np) : np[i][1] = id)

NPPos(np, id) == np[NPGet(np, id)][2]

NPSet(np, id, pos) ==
    IF id \in NPKeys(np)
    THEN [np EXCEPT ![NPGet(np, id)] = <<id, pos>>]
    ELSE Append(np, <<id, pos>>)

NPDel(np, id) == SelectSeq(np, LAMBDA e : e[1] # id)

---------------------------------------------------------------------------
(* Weights: float arithmetic with +infinity *)

AddW(w, d) == IF w = Inf THEN Inf ELSE w + d

AddW2(x, y) == IF x = Inf \/ y = Inf THEN Inf ELSE x + y

\* sum(...) of floats: +inf as soon as one term is +inf
RECURSIVE SumW(_)
SumW(s) == IF s = <<>> THEN 0 ELSE AddW2(s[1], SumW(Tail(s)))

MulRatio(w, num, den) == IF w = Inf THEN Inf ELSE (w * num) \div den

---------------------------------------------------------------------------
(* Geometry *)

Sq(x) == x * x

DistSq(p, q) == Sq(p[1] - q[1]) + Sq(p[2] - q[2])

\* dot product of (p - a) with (b - a), clamped to the segment: t = max(0, min(1, t))
ClampedDot(p, a, b) ==
    LET dot == (p[1] - a[1]) * (b[1] - a[1]) + (p[2] - a[2]) * (b[2] - a[2])
    IN  Max(0, Min(DistSq(a, b), dot))

PointAt(a, b, num, den) ==
    <<a[1] + (num * (b[1] - a[1])) \div den, a[2] + (num * (b[2] - a[2])) \div den>>

\* point_segment_distance, squared
PointSegmentDistSq(p, a, b) ==
    IF DistSq(a, b) = 0
    THEN DistSq(p, a)
    ELSE DistSq(p, PointAt(a, b, ClampedDot(p, a, b), DistSq(a, b)))

---------------------------------------------------------------------------
(* The graph (a networkx DiGraph): nodes in insertion order, the 'pos'     *)
(* attribute, successors in insertion order, the 'weight' attribute        *)

HasNode(G, n) == n \in Range(G.nodes)

HasEdge(G, u, v) == <<u, v>> \in DOMAIN G.w

RECURSIVE ConcatAll(_)
ConcatAll(ss) == IF ss = <<>> THEN <<>> ELSE ss[1] \o ConcatAll(Tail(ss))

\* graph.edges(): by source in node order, then by successor in insertion order
EdgeSeq(G) ==
    ConcatAll([i \in 1..Len(G.nodes) |->
                 [j \in 1..Len(G.adj[G.nodes[i]]) |->
                    <<G.nodes[i], G.adj[G.nodes[i]][j]>>]])

\* graph.add_node(n, pos=pos)
AddNode(G, n, pos) ==
    IF HasNode(G, n)
    THEN [G EXCEPT !.pos = [m \in DOMAIN G.pos |-> IF m = n THEN pos ELSE G.pos[m]]]
    ELSE [G EXCEPT !.nodes = Append(G.nodes, n),
                   !.pos = (n :> pos) @@ G.pos,
                   !.adj = (n :> <<>>) @@ G.adj]

\* graph.add_edge(u, v, weight=w), both nodes present
AddEdge(G, u, v, w) ==
    IF HasEdge(G, u, v)
    THEN [G EXCEPT !.w = [e \in DOMAIN G.w |-> IF e = <<u, v>> THEN w ELSE G.w[e]]]
    ELSE [G EXCEPT !.adj = [m \in DOMAIN G.adj |->
                              IF m = u THEN Append(G.adj[m], v) ELSE G.adj[m]],
                   !.w = (<<u, v>> :> w) @@ G.w]

\* graph.remove_node(n): the node and every edge into or out of it
RemoveNode(G, n) ==
    LET keep == {e \in DOMAIN G.w : e[1] # n /\ e[2] # n}
        left == Range(G.nodes) \ {n}
    IN  [nodes |-> Without(G.nodes, n),
         pos   |-> [m \in left |-> G.pos[m]],
         adj   |-> [m \in left |-> Without(G.adj[m], n)],
         w     |-> [e \in keep |-> G.w[e]]]

---------------------------------------------------------------------------
(* Pathfinding (app/pathfinding.py)                                        *)

\* Pathfinding.modify_edge_weight(u, v, add_weight=d) for every edge of es:
\* adding to +inf leaves +inf
ModifyAdd(G, es, d) ==
    [G EXCEPT !.w = [e \in DOMAIN G.w |-> IF e \in es THEN AddW(G.w[e], d) ELSE G.w[e]]]

\* Pathfinding.modify_edge_weight(u, v, set_weight=x) for every edge of es
ModifySet(G, es, x) ==
    [G EXCEPT !.w = [e \in DOMAIN G.w |-> IF e \in es THEN x ELSE G.w[e]]]

Midpoint(p1, p2) == <<(p1[1] + p2[1]) \div 2, (p1[2] + p2[2]) \div 2>>

\* distance from the line p1-p2 (its end points and its middle) to the edge's segment
LineEdgeDistSq(p1, p2, a, b) ==
    Min(PointSegmentDistSq(p1, a, b),
        Min(PointSegmentDistSq(Midpoint(p1, p2), a, b), PointSegmentDistSq(p2, a, b)))

\* the lines the user draws for jams, blocks and lights
EffectLines == {<<<<64, -10>>, <<64, 10>>>>, <<<<128, 48>>, <<128, 80>>>>}

\* the points of the map on which the nodes of the model and the points snapped
\* onto its edges lie
GridPoints == {<<x, y>> : x \in {0, 32, 64, 96, 128}, y \in {0, 32, 64, 96, 128}}

\* LineEdgeDistSq of every drawn line to every segment between two grid points,
\* evaluated once
NearTable ==
    [l \in EffectLines |-> [a \in GridPoints |-> [b \in GridPoints |->
        LineEdgeDistSq(l[1], l[2], a, b)]]]

\* LineEdgeDistSq, read from NearTable where the table has the arguments
LineEdgeDist(p1, p2, a, b) ==
    IF <<p1, p2>> \in EffectLines /\ a \in GridPoints /\ b \in GridPoints
    THEN NearTable[<<p1, p2>>][a][b]
    ELSE LineEdgeDistSq(p1, p2, a, b)

\* Pathfinding.find_edges_near_line(p1, p2, threshold): every directed edge whose
\* segment passes within threshold of the line
FindEdgesNearLine(G, p1, p2, threshold) ==
    LET Near(pos, es, limit) ==
            {e \in es : LineEdgeDist(p1, p2, pos[e[1]], pos[e[2]]) <= limit}
    IN  Near(G.pos, DOMAIN G.w, Sq(threshold))

\* sum of the weights along a node sequence
PathCost(G, p) == SumW([i \in 1..(Len(p) - 1) |-> G.w[<<p[i], p[i + 1]>>]])

\* the simple paths to t that extend p over edges of finite weight
RECURSIVE FinitePaths(_, _, _)
FinitePaths(G, p, t) ==
    IF p[Len(p)] = t
    THEN {p}
    ELSE UNION {FinitePaths(G, Append(p, n), t) :
                  n \in {m \in Range(G.adj[p[Len(p)]]) :
                           m \notin Range(p) /\ G.w[<<p[Len(p)], m>>] # Inf}}

\* the least number of a non-empty set
MinOf(S) == CHOOSE x \in S : \A y \in S : x <= y

\* Pathfinding.find_path(s, t): a cheapest path over finite edges; "none" when
\* there is none; raises when a node is not in the graph
FindPath(G, s, t) ==
    IF ~HasNode(G, s) \/ ~HasNode(G, t)
    THEN [kind |-> "raise", path |-> <<>>]
    ELSE LET Cheapest(cs) ==
                 IF cs = {}
                 THEN [kind |-> "none", path |-> <<>>]
                 ELSE [kind |-> "path",
                       path |-> (CHOOSE c \in cs : \A d \in cs : c[1] <= d[1])[2]]
         IN  Cheapest({<<PathCost(G, p), p>> : p \in FinitePaths(G, <<s>>, t)})

---------------------------------------------------------------------------
(* The stop-order solver: MainWindow._solve_tsp_route                      *)

BruteForceLimit == 7

\* no call of _solve_tsp_route has returned yet
NoOrder == [kind |-> "idle", order |-> <<>>]

Ids(wps) == [i \in 1..Len(wps) |-> wps[i].node_id]

\* the points [start] + stops + [end]
AllPoints(s, e, wps) == <<s>> \o Ids(wps) \o <<e>>

\* find_path raises for one of the pairs the matrix asks it about
MatrixRaises(G, pts) ==
    \E i, j \in 1..Len(pts) :
        /\ i # j
        /\ ~HasEdge(G, pts[i], pts[j])
        /\ FindPath(G, pts[i], pts[j]).kind = "raise"

\* a matrix that searches a path for every pair, a direct edge or not
DistMatrixSearchingAll(G, pts, i, j) ==
    IF i = j
    THEN 0
    ELSE LET Cost(fp) == IF fp.kind = "path" THEN PathCost(G, fp.path) ELSE Inf
         IN  Cost(FindPath(G, pts[i], pts[j]))

\* dist_matrix[(i, j)]
DistMatrix(G, pts, i, j) ==
    IF i = j
    THEN 0
    ELSE IF HasEdge(G, pts[i], pts[j])
         THEN G.w[<<pts[i], pts[j]>>]
         ELSE LET Cost(fp) == IF fp.kind = "path" THEN PathCost(G, fp.path) ELSE Inf
              IN  Cost(FindPath(G, pts[i], pts[j]))

\* the permutations of a set of indices, as sequences
Perms(S) ==
    {p \in [1..Cardinality(S) -> S] : \A i, j \in DOMAIN p : i # j => p[i] # p[j]}

\* p comes before q in the order itertools.permutations yields them
LexBefore(p, q) ==
    \E i \in DOMAIN p :
        /\ p[i] < q[i]
        /\ \A j \in 1..(i - 1) : p[j] = q[j]

\* cost of the route 0 -> perm -> n - 1 on the matrix (indices from 1 here)
RouteCost(G, pts, perm) ==
    LET route == <<1>> \o perm \o <<Len(pts)>>
    IN  SumW([i \in 1..(Len(route) - 1) |-> DistMatrix(G, pts, route[i], route[i + 1])])

\* a loop over the permutations that keeps each one it examines: the last one,
\* the stops in reverse, is returned
BruteForceKeepLast(G, pts) ==
    [kind |-> "ok", order |-> [i \in 1..(Len(pts) - 2) |-> Len(pts) - 1 - i]]

\* a loop that replaces best_order on a cost that is not larger: among the
\* permutations of smallest cost the last one is returned
BruteForceTakeLastBest(G, pts) ==
    LET Last(lasts) == CHOOSE p \in lasts : \A q \in lasts \ {p} : LexBefore(q, p)
        Shifted(best) == [kind |-> "ok", order |-> [i \in DOMAIN best |-> best[i] - 1]]
        Best(cs) ==
            IF cs = {}
            THEN [kind |-> "raise", order |-> <<>>]
            ELSE Shifted(Last({c[2] : c \in {d \in cs : \A x \in cs : d[1] <= x[1]}}))
    IN  Best({c \in {<<RouteCost(G, pts, p), p>> : p \in Perms(2..(Len(pts) - 1))} :
                c[1] # Inf})

\* the brute-force branch: the first permutation of strictly smallest cost below
\* +inf; best_order stays None when there is none, and the return raises
BruteForce(G, pts) ==
    LET First(firsts) == CHOOSE p \in firsts : \A q \in firsts \ {p} : LexBefore(p, q)
        Shifted(best) == [kind |-> "ok", order |-> [i \in DOMAIN best |-> best[i] - 1]]
        Best(cs) ==
            IF cs = {}
            THEN [kind |-> "raise", order |-> <<>>]
            ELSE Shifted(First({c[2] : c \in {d \in cs : \A x \in cs : d[1] <= x[1]}}))
    IN  Best({c \in {<<RouteCost(G, pts, p), p>> : p \in Perms(2..(Len(pts) - 1))} :
                c[1] # Inf})

\* a heuristic that takes, among the nearest unvisited stops, the last one
RECURSIVE NearestNeighbourTakingLastTie(_, _, _, _, _)
NearestNeighbourTakingLastTie(G, pts, unvisited, current, route) ==
    IF unvisited = {}
    THEN [kind |-> "ok", order |-> [i \in DOMAIN route |-> route[i] - 1]]
    ELSE LET Pick(d) == CHOOSE x \in unvisited :
                           \A y \in unvisited \ {x} : d[x] < d[y] \/ (d[x] = d[y] /\ x > y)
             Go(nearest) == NearestNeighbourTakingLastTie(G, pts, unvisited \ {nearest},
                                                          nearest, Append(route, nearest))
         IN  Go(Pick([x \in unvisited |-> DistMatrix(G, pts, current, x)]))

\* a heuristic that moves on to the dearest unvisited stop
RECURSIVE NearestNeighbourTakingDearest(_, _, _, _, _)
NearestNeighbourTakingDearest(G, pts, unvisited, current, route) ==
    IF unvisited = {}
    THEN [kind |-> "ok", order |-> [i \in DOMAIN route |-> route[i] - 1]]
    ELSE LET Pick(d) == CHOOSE x \in unvisited :
                           \A y \in unvisited \ {x} : d[x] > d[y] \/ (d[x] = d[y] /\ x < y)
             Go(nearest) == NearestNeighbourTakingDearest(G, pts, unvisited \ {nearest},
                                                          nearest, Append(route, nearest))
         IN  Go(Pick([x \in unvisited |-> DistMatrix(G, pts, current, x)]))

\* the nearest-neighbour branch: min(unvisited, key=...) takes the first minimum in
\* the set's iteration order (ascending for small ints)
RECURSIVE NearestNeighbour(_, _, _, _, _)
NearestNeighbour(G, pts, unvisited, current, route) ==
    IF unvisited = {}
    THEN [kind |-> "ok", order |-> [i \in DOMAIN route |-> route[i] - 1]]
    ELSE LET Pick(d) == CHOOSE x \in unvisited :
                           \A y \in unvisited \ {x} : d[x] < d[y] \/ (d[x] = d[y] /\ x < y)
             Go(nearest) == NearestNeighbour(G, pts, unvisited \ {nearest}, nearest,
                                             Append(route, nearest))
         IN  Go(Pick([x \in unvisited |-> DistMatrix(G, pts, current, x)]))

\* _solve_tsp_route(start, end, waypoints): indices into waypoints (from 1 here);
\* for a single stop waypoint_indices is returned as it is, not shifted down
SolveTspRoute(G, s, e, wps) ==
    LET pts == AllPoints(s, e, wps)
        k == Len(wps)
    IN  IF k = 0
        THEN [kind |-> "ok", order |-> <<>>]
        ELSE IF MatrixRaises(G, pts)
        THEN [kind |-> "raise", order |-> <<>>]
        ELSE IF k <= 1
        THEN [kind |-> "ok", order |-> [i \in 1..k |-> i + 1]]
        ELSE IF k <= BruteForceLimit
        THEN BruteForce(G, pts)
        ELSE NearestNeighbour(G, pts, 2..(Len(pts) - 1), 1, <<>>)

---------------------------------------------------------------------------
(* Route computation                                                       *)

Rep(kind, seg, shown, cost) ==
    [kind |-> kind, seg |-> seg, shown |-> shown, cost |-> cost]

NoReport == Rep("none", 0, FALSE, 0)

HasInfiniteEdge(G, p) ==
    \E i \in 1..(Len(p) - 1) : HasEdge(G, p[i], p[i + 1]) /\ G.w[<<p[i], p[i + 1]>>] = Inf

\* an assembly that appends each searched segment whole, its first node included
RECURSIVE ComposeRouteKeepingJunction(_, _, _, _, _)
ComposeRouteKeepingJunction(G, pts, i, full, total) ==
    IF i >= Len(pts) - 1
    THEN [kind |-> "route", seg |-> 0, path |-> full, cost |-> total]
    ELSE LET Direct(a, b) ==
                 ComposeRouteKeepingJunction(G, pts, i + 1,
                              IF i = 0 THEN <<a, b>> ELSE full \o <<b>>,
                              AddW2(total, G.w[<<a, b>>]))
             Searched(fp) ==
                 IF fp.kind = "raise"
                 THEN [kind |-> "error", seg |-> i, path |-> <<>>, cost |-> 0]
                 ELSE IF fp.kind = "none"
                 THEN [kind |-> "no_path", seg |-> i, path |-> <<>>, cost |-> 0]
                 ELSE IF HasInfiniteEdge(G, fp.path)
                 THEN [kind |-> "blocked", seg |-> i, path |-> <<>>, cost |-> 0]
                 ELSE ComposeRouteKeepingJunction(G, pts, i + 1,
                                   IF i = 0 THEN fp.path ELSE full \o fp.path,
                                   AddW2(total, PathCost(G, fp.path)))
             Segment(a, b) ==
                 IF HasEdge(G, a, b) THEN Direct(a, b) ELSE Searched(FindPath(G, a, b))
         IN  Segment(pts[i + 1], pts[i + 2])

\* the loop over the segments of route_points, from segment i (counted from 0);
\* full and total are full_path and total_cost so far
RECURSIVE ComposeRoute(_, _, _, _, _)
ComposeRoute(G, pts, i, full, total) ==
    IF i >= Len(pts) - 1
    THEN [kind |-> "route", seg |-> 0, path |-> full, cost |-> total]
    ELSE LET Direct(a, b) ==
                 ComposeRoute(G, pts, i + 1,
                              IF i = 0 THEN <<a, b>> ELSE full \o <<b>>,
                              AddW2(total, G.w[<<a, b>>]))
             Searched(fp) ==
                 IF fp.kind = "raise"
                 THEN [kind |-> "error", seg |-> i, path |-> <<>>, cost |-> 0]
                 ELSE IF fp.kind = "none"
                 THEN [kind |-> "no_path", seg |-> i, path |-> <<>>, cost |-> 0]
                 ELSE IF HasInfiniteEdge(G, fp.path)
                 THEN [kind |-> "blocked", seg |-> i, path |-> <<>>, cost |-> 0]
                 ELSE ComposeRoute(G, pts, i + 1,
                                   IF i = 0 THEN fp.path ELSE full \o Tail(fp.path),
                                   AddW2(total, PathCost(G, fp.path)))
             Segment(a, b) ==
                 IF HasEdge(G, a, b) THEN Direct(a, b) ELSE Searched(FindPath(G, a, b))
         IN  Segment(pts[i + 1], pts[i + 2])

\* the stop list the route is built from: optimised, restored to the original
\* order, or as it is
OrderedWaypoints(G, s, e, wps, orig, opt) ==
    IF opt /\ Len(wps) > 1
    THEN LET Reordered(t) ==
                 IF t.kind = "raise"
                 THEN [kind |-> "raise", wps |-> wps]
                 ELSE [kind |-> "ok", wps |-> [i \in DOMAIN t.order |-> wps[t.order[i]]]]
         IN  Reordered(SolveTspRoute(G, s, e, wps))
    ELSE IF Len(wps) > 0 /\ Len(orig) > 0 /\ Ids(wps) # Ids(orig)
         THEN [kind |-> "ok", wps |-> orig]
         ELSE [kind |-> "ok", wps |-> wps]

\* a route computation that leaves the displayed route in place when it fails
\* with the errors suppressed
TriggerWithWaypointsKeepPath(G, s, e, wps, orig, opt, supp, dp) ==
    IF s = None \/ e = None
    THEN [waypoints |-> wps, drawn |-> dp, report |-> NoReport]
    ELSE LET Outcome(o, r) ==
                 [waypoints |-> o.wps,
                  drawn |-> IF r.kind = "route" THEN r.path
                            ELSE IF supp THEN dp ELSE <<>>,
                  report |-> Rep(r.kind, r.seg,
                                 IF r.kind = "blocked" THEN TRUE
                                 ELSE IF r.kind = "route" THEN FALSE
                                 ELSE ~supp,
                                 r.cost)]
             Routed(o) ==
                 IF o.kind = "raise"
                 THEN [waypoints |-> wps, drawn |-> dp, report |-> Rep("uncaught", 0, TRUE, 0)]
                 ELSE Outcome(o, ComposeRoute(G, AllPoints(s, e, o.wps), 0, <<>>, 0))
         IN  Routed(OrderedWaypoints(G, s, e, wps, orig, opt))

\* _trigger_pathfinding_with_waypoints: the new stop list, the route displayed
\* afterwards (dp is the one displayed before) and what is reported
TriggerWithWaypoints(G, s, e, wps, orig, opt, supp, dp) ==
    IF s = None \/ e = None
    THEN [waypoints |-> wps, drawn |-> dp, report |-> NoReport]
    ELSE LET Outcome(o, r) ==
                 [waypoints |-> o.wps,
                  drawn |-> IF r.kind = "route" THEN r.path ELSE <<>>,
                  report |-> Rep(r.kind, r.seg,
                                 IF r.kind = "blocked" THEN TRUE
                                 ELSE IF r.kind = "route" THEN FALSE
                                 ELSE ~supp,
                                 r.cost)]
             Routed(o) ==
                 IF o.kind = "raise"
                 THEN [waypoints |-> wps, drawn |-> dp, report |-> Rep("uncaught", 0, TRUE, 0)]
                 ELSE Outcome(o, ComposeRoute(G, AllPoints(s, e, o.wps), 0, <<>>, 0))
         IN  Routed(OrderedWaypoints(G, s, e, wps, orig, opt))

\* _trigger_pathfinding
TriggerPathfinding(G, s, e, wps, orig, opt, supp, dp) ==
    IF wps # <<>>
    THEN TriggerWithWaypoints(G, s, e, wps, orig, opt, supp, dp)
    ELSE IF s = None \/ e = None
    THEN [waypoints |-> wps, drawn |-> <<>>, report |-> NoReport]
    ELSE LET Failed(kind) ==
                 [waypoints |-> wps, drawn |-> <<>>, report |-> Rep(kind, 0, ~supp, 0)]
             Found(p, cost) ==
                 IF HasInfiniteEdge(G, p) \/ cost = Inf
                 THEN Failed("blocked")
                 ELSE [waypoints |-> wps, drawn |-> p, report |-> Rep("route", 0, FALSE, cost)]
             Searched(fp) ==
                 IF fp.kind = "raise" THEN Failed("error")
                 ELSE IF fp.kind = "none" THEN Failed("no_path")
                 ELSE Found(fp.path, PathCost(G, fp.path))
         IN  Searched(FindPath(G, s, e))

---------------------------------------------------------------------------
(* The effect overlay: MainWindow._recalculate_effects_and_path            *)

\* TrafficLightInstance.get_current_weight_modifier(): per-state weight delta
LightModifier(state) ==
    IF state = "A" THEN 32 ELSE IF state = "B" THEN 16 ELSE -8

NextLightState(state) ==
    IF state = "A" THEN "B" ELSE IF state = "B" THEN "C" ELSE "A"

\* TrafficLightInstance.stop(): the timer halts, the state stays as it is
StopClock(l) == [l EXCEPT !.running = FALSE]

\* the three states of a clock, in their cyclic order
LightStates == {"A", "B", "C"}

\* no TrafficLightInstance has been constructed
NoClock == [durations |-> [s \in LightStates |-> 0], state |-> "A", remaining |-> 0,
            running |-> FALSE]

\* TrafficLightInstance(durations): the clock starts in its first state with the
\* full duration of that state remaining
StartedClock(d) == [durations |-> d, state |-> "A", remaining |-> d["A"],
                    running |-> TRUE]

\* a tick that moves on by two states at the end of a state
ClockTickSkippingState(c) ==
    IF ~c.running THEN c
    ELSE IF c.remaining > 1 THEN [c EXCEPT !.remaining = c.remaining - 1]
    ELSE [c EXCEPT !.state = NextLightState(NextLightState(c.state)),
                   !.remaining = c.durations[NextLightState(NextLightState(c.state))]]

\* a tick that a stopped clock still counts
ClockTickWhenStopped(c) ==
    IF c.remaining > 1 THEN [c EXCEPT !.remaining = c.remaining - 1]
    ELSE [c EXCEPT !.state = NextLightState(c.state),
                   !.remaining = c.durations[NextLightState(c.state)]]

\* one tick of the timer of a clock: a stopped clock does nothing; a running one
\* counts one second down, and at zero moves to the next state with the full
\* duration of that state remaining
ClockTick(c) ==
    IF ~c.running THEN c
    ELSE IF c.remaining > 1 THEN [c EXCEPT !.remaining = c.remaining - 1]
    ELSE [c EXCEPT !.state = NextLightState(c.state),
                   !.remaining = c.durations[NextLightState(c.state)]]

\* a removal that deletes the entries without stopping their clocks
KeepRemovedLightsRunning(ls, gone) == ls

\* _handle_effects_changed: the clocks whose visuals are gone from the map are
\* stopped before their entries are deleted
StopRemovedLights(ls, gone) ==
    [i \in 1..Len(ls) |-> IF i \in gone THEN StopClock(ls[i]) ELSE ls[i]]

\* stop_all_traffic_light_timers, and the loop of _clear_traffic_lights: every
\* clock is stopped before the dict is cleared
StopAllTrafficLightTimers(ls) == [i \in 1..Len(ls) |-> StopClock(ls[i])]

\* the timer states of the clocks of ls, as they are dropped
TimerStates(ls) == {ls[i].running : i \in 1..Len(ls)}

\* reset_graph_weights
ResetGraphWeights(G, ow) ==
    IF DOMAIN ow = {}
    THEN G
    ELSE [G EXCEPT !.w = [e \in DOMAIN G.w |-> IF e \in DOMAIN ow THEN ow[e] ELSE G.w[e]]]

RECURSIVE ApplyJams(_, _)
ApplyJams(G, js) ==
    IF js = <<>>
    THEN G
    ELSE ApplyJams(ModifyAdd(G, FindEdgesNearLine(G, js[1].p1, js[1].p2, EffectThreshold),
                             js[1].weight),
                   Tail(js))

RECURSIVE ApplyBlocks(_, _)
ApplyBlocks(G, bs) ==
    IF bs = <<>>
    THEN G
    ELSE ApplyBlocks(ModifySet(G, FindEdgesNearLine(G, bs[1].p1, bs[1].p2, EffectThreshold),
                               Inf),
                     Tail(bs))

RECURSIVE ApplyLights(_, _)
ApplyLights(G, ls) ==
    IF ls = <<>>
    THEN G
    ELSE ApplyLights(ModifyAdd(G, FindEdgesNearLine(G, ls[1].p1, ls[1].p2, EffectThreshold),
                               LightModifier(ls[1].state)),
                     Tail(ls))

\* a pass that leaves the blocks out
RecalculateWithoutBlocks(G, ow, js, bs, ls) ==
    ApplyLights(ApplyJams(ResetGraphWeights(G, ow), js), ls)

\* a pass that sets the blocks before it resets the weights
RecalculateBlocksBeforeReset(G, ow, js, bs, ls) ==
    ApplyLights(ApplyJams(ResetGraphWeights(ApplyBlocks(G, bs), ow), js), ls)

\* the weights after the pass: reset, then jams, then blocks, then lights
RecalculateEffects(G, ow, js, bs, ls) ==
    ApplyLights(ApplyBlocks(ApplyJams(ResetGraphWeights(G, ow), js), bs), ls)

---------------------------------------------------------------------------
(* Point selection: MainWindow._find_nearest_node_or_edge                  *)

\* f"{best_ratio:.3f}": the ratio num/den in thousandths, rounded
Round3(num, den) == (2000 * num + den) \div (2 * den)

\* node_positions as a function of the node id
NPFun(np) == [id \in NPKeys(np) |-> NPPos(np, id)]

\* the first index of a smallest entry of a sequence of numbers, among a set of indices
FirstMin(ds, I) ==
    CHOOSE i \in I : \A j \in I : ds[i] < ds[j] \/ (ds[i] = ds[j] /\ i <= j)

NoSelection ==
    [node_id |-> None, pos |-> None, is_virtual |-> FALSE,
     u |-> None, v |-> None, num |-> 0, den |-> 1]

\* a selection that takes the point on the nearest edge whatever its ratio
FindNearestNodeOrEdgeAnyRatio(np, G, c) ==
    IF np = <<>>
    THEN NoSelection
    ELSE LET AsNode(ni) ==
                 [node_id |-> np[ni][1], pos |-> np[ni][2], is_virtual |-> FALSE,
                  u |-> None, v |-> None, num |-> 0, den |-> 1]
             OnEdge(ni, u, v, pu, pv, num, den) ==
                 IF num >= 0
                 THEN [node_id |-> VirtualId(u, v, Round3(num, den)),
                       pos |-> PointAt(pu, pv, num, den), is_virtual |-> TRUE,
                       u |-> u, v |-> v, num |-> num, den |-> den]
                 ELSE AsNode(ni)
             Best(ni, u, v, pu, pv) ==
                 OnEdge(ni, u, v, pu, pv, ClampedDot(c, pu, pv), DistSq(pu, pv))
             Edges(ni, near, pf, es, ed) ==
                 IF near \/ \A i \in 1..Len(es) : ed[i] >= Sq(EdgeSnap)
                 THEN AsNode(ni)
                 ELSE LET Take(e) == Best(ni, e[1], e[2], pf[e[1]], pf[e[2]])
                      IN  Take(es[FirstMin(ed, {i \in 1..Len(es) : ed[i] < Sq(EdgeSnap)})])
             Measure(ni, near, pf, es) ==
                 Edges(ni, near, pf, es,
                       [i \in 1..Len(es) |->
                          IF es[i][1] \in DOMAIN pf /\ es[i][2] \in DOMAIN pf
                             /\ DistSq(pf[es[i][1]], pf[es[i][2]]) # 0
                          THEN PointSegmentDistSq(c, pf[es[i][1]], pf[es[i][2]])
                          ELSE Sq(EdgeSnap)])
             Nodes(nd) ==
                 LET Nearest(ni) == Measure(ni, nd[ni] < NodeSnapSq, NPFun(np), EdgeSeq(G))
                 IN  Nearest(FirstMin(nd, 1..Len(np)))
         IN  Nodes([i \in 1..Len(np) |-> DistSq(np[i][2], c)])

\* (node_id, pos, is_virtual, edge_info) for a click at c.  The nearest node is
\* the first entry of node_positions at the smallest distance; the best edge is
\* the first edge of graph.edges() at the smallest distance below EdgeSnap, among
\* those with both ends in node_positions and of non-zero length.
FindNearestNodeOrEdge(np, G, c) ==
    IF np = <<>>
    THEN NoSelection
    ELSE LET AsNode(ni) ==
                 [node_id |-> np[ni][1], pos |-> np[ni][2], is_virtual |-> FALSE,
                  u |-> None, v |-> None, num |-> 0, den |-> 1]
             OnEdge(ni, u, v, pu, pv, num, den) ==
                 IF 20 * num > den /\ 20 * num < 19 * den
                 THEN [node_id |-> VirtualId(u, v, Round3(num, den)),
                       pos |-> PointAt(pu, pv, num, den), is_virtual |-> TRUE,
                       u |-> u, v |-> v, num |-> num, den |-> den]
                 ELSE AsNode(ni)
             Best(ni, u, v, pu, pv) ==
                 OnEdge(ni, u, v, pu, pv, ClampedDot(c, pu, pv), DistSq(pu, pv))
             Edges(ni, near, pf, es, ed) ==
                 IF near \/ \A i \in 1..Len(es) : ed[i] >= Sq(EdgeSnap)
                 THEN AsNode(ni)
                 ELSE LET Take(e) == Best(ni, e[1], e[2], pf[e[1]], pf[e[2]])
                      IN  Take(es[FirstMin(ed, {i \in 1..Len(es) : ed[i] < Sq(EdgeSnap)})])
             Measure(ni, near, pf, es) ==
                 Edges(ni, near, pf, es,
                       [i \in 1..Len(es) |->
                          IF es[i][1] \in DOMAIN pf /\ es[i][2] \in DOMAIN pf
                             /\ DistSq(pf[es[i][1]], pf[es[i][2]]) # 0
                          THEN PointSegmentDistSq(c, pf[es[i][1]], pf[es[i][2]])
                          ELSE Sq(EdgeSnap)])
             Nodes(nd) ==
                 LET Nearest(ni) == Measure(ni, nd[ni] < NodeSnapSq, NPFun(np), EdgeSeq(G))
                 IN  Nearest(FirstMin(nd, 1..Len(np)))
         IN  Nodes([i \in 1..Len(np) |-> DistSq(np[i][2], c)])

\* an insertion that gives both halves of the road the share ratio
AddVirtualNodeSameShare(G, np, id, u, v, num, den) ==
    IF HasNode(G, id) \/ ~HasEdge(G, u, v)
    THEN G
    ELSE LET Halves(G0, w1) ==
                 AddEdge(AddEdge(AddEdge(AddEdge(G0, u, id, w1), id, u, w1), id, v, w1),
                         v, id, w1)
         IN  Halves(AddNode(G, id, NPPos(np, id)), MulRatio(G.w[<<u, v>>], num, den))

\* an insertion that splits the road again when the virtual id is already a node
AddVirtualNodeAgain(G, np, id, u, v, num, den) ==
    IF ~HasEdge(G, u, v)
    THEN G
    ELSE LET Halves(G0, w1, w2) ==
                 AddEdge(AddEdge(AddEdge(AddEdge(G0, u, id, w1), id, u, w1), id, v, w2),
                         v, id, w2)
         IN  Halves(AddNode(G, id, NPPos(np, id)),
                    MulRatio(G.w[<<u, v>>], num, den),
                    MulRatio(G.w[<<u, v>>], den - num, den))

\* an insertion that splits the road: the edges u -> v and v -> u are taken out
AddVirtualNodeReplacingEdge(G, np, id, u, v, num, den) ==
    IF HasNode(G, id)
    THEN G
    ELSE IF ~HasEdge(G, u, v)
    THEN G
    ELSE LET ow == G.w[<<u, v>>]
             w1 == MulRatio(ow, num, den)
             w2 == MulRatio(ow, den - num, den)
             cut == DOMAIN G.w \ {<<u, v>>, <<v, u>>}
             G0 == AddNode([G EXCEPT !.w = [e \in cut |-> G.w[e]],
                                     !.adj = [m \in DOMAIN G.adj |->
                                                IF m = u THEN Without(G.adj[m], v)
                                                ELSE IF m = v THEN Without(G.adj[m], u)
                                                ELSE G.adj[m]]],
                           id, NPPos(np, id))
             G1 == AddEdge(G0, u, id, w1)
             G2 == AddEdge(G1, id, u, w1)
             G3 == AddEdge(G2, id, v, w2)
         IN  AddEdge(G3, v, id, w2)

\* _add_virtual_node_to_graph(virtual_id, u, v, ratio), ratio = num/den
AddVirtualNodeToGraph(G, np, id, u, v, num, den) ==
    IF HasNode(G, id)
    THEN G
    ELSE IF ~HasEdge(G, u, v)
    THEN G
    ELSE LET ow == G.w[<<u, v>>]
             w1 == MulRatio(ow, num, den)
             w2 == MulRatio(ow, den - num, den)
             G0 == AddNode(G, id, NPPos(np, id))
             G1 == AddEdge(G0, u, id, w1)
             G2 == AddEdge(G1, id, u, w1)
             G3 == AddEdge(G2, id, v, w2)
         IN  AddEdge(G3, v, id, w2)

\* _remove_virtual_node(node_id), on the graph
RemoveVirtualNode(G, id) == IF HasNode(G, id) THEN RemoveNode(G, id) ELSE G

\* the virtual nodes _remove_virtual_nodes(exclude_nodes) removes
VirtualNodesToRemove(G, exclude) ==
    SelectSeq(G.nodes, LAMBDA n : IsVirtual(n) /\ n \notin exclude)

RECURSIVE RemoveNodes(_, _)
RemoveNodes(G, ns) == IF ns = <<>> THEN G ELSE RemoveNodes(RemoveNode(G, ns[1]), Tail(ns))

RECURSIVE NPDelAll(_, _)
NPDelAll(np, ns) == IF ns = <<>> THEN np ELSE NPDelAll(NPDel(np, ns[1]), Tail(ns))

\* the virtual start and end that _clear_all_waypoints preserves
PreserveNodes(s, e) == {n \in {s, e} : IsVirtual(n)}

---------------------------------------------------------------------------
(* The loaded map and the inputs of the model                              *)

LoadedGraph ==
    [nodes |-> <<A, B, C, D>>,
     pos   |-> (A :> <<0, 0>>) @@ (B :> <<128, 0>>) @@ (C :> <<128, 128>>)
               @@ (D :> <<0, 128>>),
     adj   |-> (A :> <<B, C>>) @@ (B :> <<A, C>>) @@ (C :> <<B>>) @@ (D :> <<A>>),
     w     |-> (<<A, B>> :> 16) @@ (<<B, A>> :> 16) @@ (<<B, C>> :> 16)
               @@ (<<C, B>> :> 16) @@ (<<A, C>> :> 80) @@ (<<D, A>> :> 32)]

\* where the user clicks on the map
Clicks == {<<64, 16>>, <<96, 16>>, <<0, 32>>, <<0, 0>>, <<128, 0>>, <<128, 128>>}

\* sidebar.traffic_tool.get_weight()
JamWeights == {32}

\* the ids the location search offers, and one that is not in the map
SearchIds == {A, B, C, D, <<9>>}

VirtualCount(G) == Cardinality({n \in Range(G.nodes) : IsVirtual(n)})

\* every finite weight within the bound of the model
Bounded(G) ==
    \A e \in DOMAIN G.w : G.w[e] = Inf \/ (G.w[e] >= -MaxWeight /\ G.w[e] <= MaxWeight)

---------------------------------------------------------------------------
(* Initial state: MainWindow.__init__                                      *)

Init ==
    /\ graph = LoadedGraph
    /\ original_weights = LoadedGraph.w
    /\ node_positions = [i \in 1..Len(LoadedGraph.nodes) |->
                           <<LoadedGraph.nodes[i], LoadedGraph.pos[LoadedGraph.nodes[i]]>>]
    /\ start_node = None
    /\ end_node = None
    /\ waypoints = <<>>
    /\ original_waypoint_order = <<>>
    /\ optimize = FALSE
    /\ jams = <<>>
    /\ blocks = <<>>
    /\ lights = <<>>
    /\ drawn_path = <<>>
    /\ report = NoReport
    /\ suppress_path_errors = FALSE
    /\ optimal_order = NoOrder
    /\ discarded_clocks = {}
    /\ closed = FALSE
    /\ clock = NoClock
    /\ pc = "idle"
    /\ dialogs = 0

---------------------------------------------------------------------------
(* Handlers                                                                *)

\* the tail of a handler: the stop list, the displayed route and the report
Finish(r) ==
    /\ waypoints' = r.waypoints
    /\ drawn_path' = r.drawn
    /\ report' = r.report

Cleared(wps) == [waypoints |-> wps, drawn |-> <<>>, report |-> NoReport]

Kept(wps, dp) == [waypoints |-> wps, drawn |-> dp, report |-> NoReport]

\* a pass that computes the route first, on the weights it is about to replace
RecalculateRouteBeforeWeights(js, bs, ls) ==
    LET Pass(G1) ==
            /\ Bounded(G1)
            /\ graph' = G1
            /\ Finish(IF start_node # None /\ end_node # None
                      THEN TriggerPathfinding(graph, start_node, end_node, waypoints,
                                              original_waypoint_order, optimize,
                                              suppress_path_errors, drawn_path)
                      ELSE Cleared(waypoints))
    IN  /\ Pass(RecalculateEffects(graph, original_weights, js, bs, ls))
        /\ UNCHANGED <<original_weights, node_positions, start_node, end_node,
                       original_waypoint_order, optimize, suppress_path_errors,
                       optimal_order, closed, clock, pc, dialogs>>

\* _recalculate_effects_and_path with the effect lists js, bs, ls
RecalculateEffectsAndPath(js, bs, ls) ==
    LET Pass(G1) ==
            /\ Bounded(G1)
            /\ graph' = G1
            /\ Finish(IF start_node # None /\ end_node # None
                      THEN TriggerPathfinding(G1, start_node, end_node, waypoints,
                                              original_waypoint_order, optimize,
                                              suppress_path_errors, drawn_path)
                      ELSE Cleared(waypoints))
    IN  /\ Pass(RecalculateEffects(graph, original_weights, js, bs, ls))
        /\ UNCHANGED <<original_weights, node_positions, start_node, end_node,
                       original_waypoint_order, optimize, suppress_path_errors,
                       optimal_order, closed, clock, pc, dialogs>>

\* _handle_point_selected from the result f of _find_nearest_node_or_edge on
PointSelected(pt, f) ==
    LET Selected(np1, G1, rejected, s1, e1, wps1, orig1) ==
            /\ VirtualCount(G1) <= MaxVirtual
            /\ Len(wps1) <= MaxStops
            /\ Len(orig1) <= MaxStops
            /\ node_positions' = np1
            /\ graph' = G1
            /\ start_node' = s1
            /\ end_node' = e1
            /\ original_waypoint_order' = orig1
            /\ Finish(IF rejected
                      THEN [waypoints |-> waypoints, drawn |-> drawn_path,
                            report |-> Rep("selection_error", 0, TRUE, 0)]
                      ELSE IF s1 # None /\ e1 # None
                      THEN TriggerWithWaypoints(G1, s1, e1, wps1, orig1, optimize,
                                                suppress_path_errors, drawn_path)
                      ELSE Cleared(wps1))
        Chosen(np1, G1, rejected, wp) ==
            Selected(np1, G1, rejected,
                     IF pt = "start" /\ ~rejected THEN f.node_id ELSE start_node,
                     IF pt = "end" /\ ~rejected THEN f.node_id ELSE end_node,
                     IF pt = "waypoint" THEN Append(waypoints, wp) ELSE waypoints,
                     IF pt = "waypoint" THEN Append(original_waypoint_order, wp)
                     ELSE original_waypoint_order)
        Stored(np1) ==
            Chosen(np1,
                   IF f.is_virtual
                   THEN AddVirtualNodeToGraph(graph, np1, f.node_id, f.u, f.v, f.num, f.den)
                   ELSE graph,
                   \/ pt = "start" /\ f.node_id = end_node
                   \/ pt = "end" /\ f.node_id = start_node,
                   [node_id |-> f.node_id, pos |-> f.pos])
    IN  /\ f.node_id # None
        /\ Stored(IF f.is_virtual THEN NPSet(node_positions, f.node_id, f.pos)
                  ELSE node_positions)
        /\ UNCHANGED <<original_weights, optimize, jams, blocks, lights,
                       suppress_path_errors,
                       optimal_order, discarded_clocks, closed, clock, pc, dialogs>>

\* _handle_point_selected(point_type, x, y)
HandlePointSelected(pt, c) ==
    PointSelected(pt, FindNearestNodeOrEdge(node_positions, graph, c))

\* _clear_start_point
ClearStartPoint ==
    /\ start_node' = None
    /\ Finish(Cleared(waypoints))
    /\ UNCHANGED <<graph, original_weights, node_positions, end_node,
                   original_waypoint_order, optimize, jams, blocks, lights,
                   suppress_path_errors,
                   optimal_order, discarded_clocks, closed, clock, pc, dialogs>>

\* _clear_end_point
ClearEndPoint ==
    /\ end_node' = None
    /\ Finish(Cleared(waypoints))
    /\ UNCHANGED <<graph, original_weights, node_positions, start_node,
                   original_waypoint_order, optimize, jams, blocks, lights,
                   suppress_path_errors,
                   optimal_order, discarded_clocks, closed, clock, pc, dialogs>>

\* the graph, node_positions and route after _clear_all_waypoints
AfterClearAllWaypoints ==
    LET Removed(gone, G1) ==
            [graph |-> G1,
             np |-> NPDelAll(node_positions, gone),
             route |-> IF start_node # None /\ end_node # None
                       THEN TriggerPathfinding(G1, start_node, end_node, <<>>, <<>>,
                                               optimize, suppress_path_errors, drawn_path)
                       ELSE Kept(<<>>, drawn_path)]
        Listed(gone) == Removed(gone, RemoveNodes(graph, gone))
    IN  Listed(VirtualNodesToRemove(graph, PreserveNodes(start_node, end_node)))

\* _clear_all_waypoints
ClearAllWaypoints ==
    LET Done(a) ==
            /\ graph' = a.graph
            /\ node_positions' = a.np
            /\ Finish(a.route)
    IN  /\ Done(AfterClearAllWaypoints)
        /\ original_waypoint_order' = <<>>
        /\ UNCHANGED <<original_weights, start_node, end_node, optimize, jams, blocks,
                       lights, suppress_path_errors,
                       optimal_order, discarded_clocks, closed, clock, pc, dialogs>>

\* _remove_selected_waypoint, with row the selected row (from 1 here)
RemoveSelectedWaypoint(row) ==
    LET Removed(wps1, drop, G1) ==
            /\ graph' = G1
            /\ Finish(IF start_node # None /\ end_node # None
                      THEN IF wps1 # <<>>
                           THEN TriggerWithWaypoints(G1, start_node, end_node, wps1,
                                                     original_waypoint_order, optimize,
                                                     TRUE, drawn_path)
                           ELSE TriggerPathfinding(G1, start_node, end_node, wps1,
                                                   original_waypoint_order, optimize,
                                                   TRUE, drawn_path)
                      ELSE Kept(wps1, drawn_path))
        Dropped(removed, drop) ==
            /\ node_positions' = IF drop THEN NPDel(node_positions, removed)
                                 ELSE node_positions
            /\ Removed(RemoveAt(waypoints, row), drop,
                       IF drop THEN RemoveVirtualNode(graph, removed) ELSE graph)
        Row(removed) ==
            Dropped(removed,
                    IsVirtual(removed) /\ removed # start_node /\ removed # end_node)
    IN  /\ row \in 1..Len(waypoints)
        /\ Row(waypoints[row].node_id)
        /\ suppress_path_errors' = FALSE
        /\ UNCHANGED <<original_weights, start_node, end_node, original_waypoint_order,
                       optimize, jams, blocks, lights,
                       optimal_order, discarded_clocks, closed, clock, pc, dialogs>>

\* handle_traffic_line(start_point, end_point)
HandleTrafficLine(line, weight) ==
    /\ Len(jams) < MaxJams
    /\ jams' = Append(jams, [p1 |-> line[1], p2 |-> line[2], weight |-> weight])
    /\ RecalculateEffectsAndPath(jams', blocks, lights)
    /\ UNCHANGED <<blocks, lights,
                   discarded_clocks>>

\* handle_block_way(start_point, end_point)
HandleBlockWay(line) ==
    /\ Len(blocks) < MaxBlocks
    /\ blocks' = Append(blocks, [p1 |-> line[1], p2 |-> line[2]])
    /\ RecalculateEffectsAndPath(jams, blocks', lights)
    /\ UNCHANGED <<jams, lights,
                   discarded_clocks>>

\* handle_traffic_light_finalized: a new clock, running, in its first state
HandleTrafficLightFinalized(line) ==
    /\ Len(lights) < MaxLights
    /\ lights' = Append(lights, [p1 |-> line[1], p2 |-> line[2], state |-> "A",
                                 running |-> TRUE])
    /\ RecalculateEffectsAndPath(jams, blocks, lights')
    /\ UNCHANGED <<jams, blocks,
                   discarded_clocks>>

\* _traffic_light_state_updated: the running clock i has moved to its next state
TrafficLightStateUpdated(i) ==
    /\ i \in 1..Len(lights)
    /\ lights[i].running
    /\ lights' = [lights EXCEPT ![i].state = NextLightState(lights[i].state)]
    /\ RecalculateEffectsAndPath(jams, blocks, lights')
    /\ UNCHANGED <<jams, blocks,
                   discarded_clocks>>

\* _handle_effects_changed, after the map viewer removed jam i
RemoveJam(i) ==
    /\ i \in 1..Len(jams)
    /\ jams' = RemoveAt(jams, i)
    /\ RecalculateEffectsAndPath(jams', blocks, lights)
    /\ UNCHANGED <<blocks, lights,
                   discarded_clocks>>

\* _handle_effects_changed, after the map viewer removed block i
RemoveBlock(i) ==
    /\ i \in 1..Len(blocks)
    /\ blocks' = RemoveAt(blocks, i)
    /\ RecalculateEffectsAndPath(jams, blocks', lights)
    /\ UNCHANGED <<jams, lights,
                   discarded_clocks>>

\* _handle_effects_changed, after the map viewer removed light i
RemoveLight(i) ==
    LET Deleted(ls) ==
            /\ discarded_clocks' = discarded_clocks \cup TimerStates(<<ls[i]>>)
            /\ lights' = RemoveAt(ls, i)
    IN  /\ i \in 1..Len(lights)
        /\ Deleted(StopRemovedLights(lights, {i}))
        /\ RecalculateEffectsAndPath(jams, blocks, lights')
        /\ UNCHANGED <<jams, blocks>>

\* _clear_traffic_jams
ClearTrafficJams ==
    /\ jams' = <<>>
    /\ RecalculateEffectsAndPath(jams', blocks, lights)
    /\ UNCHANGED <<blocks, lights,
                   discarded_clocks>>

\* _clear_block_ways
ClearBlockWays ==
    /\ blocks' = <<>>
    /\ RecalculateEffectsAndPath(jams, blocks', lights)
    /\ UNCHANGED <<jams, lights,
                   discarded_clocks>>

\* _clear_traffic_lights
ClearTrafficLights ==
    /\ discarded_clocks' = discarded_clocks \cup TimerStates(StopAllTrafficLightTimers(lights))
    /\ lights' = <<>>
    /\ RecalculateEffectsAndPath(jams, blocks, lights')
    /\ UNCHANGED <<jams, blocks>>

\* _clear_all_effects: timers stopped, visuals cleared, _clear_all_waypoints, then
\* the recompute pass
ClearAllEffects ==
    LET Pass(a, G2) ==
            /\ graph' = G2
            /\ node_positions' = a.np
            /\ Finish(IF start_node # None /\ end_node # None
                      THEN TriggerPathfinding(G2, start_node, end_node, <<>>, <<>>,
                                              optimize, suppress_path_errors, a.route.drawn)
                      ELSE Cleared(<<>>))
        Done(a) == Pass(a, RecalculateEffects(a.graph, original_weights, <<>>, <<>>, <<>>))
    IN  /\ discarded_clocks' =
               discarded_clocks \cup TimerStates(StopAllTrafficLightTimers(lights))
        /\ lights' = <<>>
        /\ jams' = <<>>
        /\ blocks' = <<>>
        /\ Done(AfterClearAllWaypoints)
        /\ original_waypoint_order' = <<>>
        /\ UNCHANGED <<original_weights, start_node, end_node, optimize,
                       suppress_path_errors,
                       optimal_order, closed, clock, pc, dialogs>>

\* _handle_location_selected_for_start with a 'node' entry of the search
LocationSelectedForStart(id) ==
    /\ IF id \notin NPKeys(node_positions) \/ id = end_node
       THEN /\ start_node' = start_node
            /\ Finish([waypoints |-> waypoints, drawn |-> drawn_path,
                       report |-> Rep("selection_error", 0, TRUE, 0)])
       ELSE /\ start_node' = id
            /\ Finish(IF end_node # None
                      THEN TriggerPathfinding(graph, id, end_node, waypoints,
                                              original_waypoint_order, optimize,
                                              suppress_path_errors, drawn_path)
                      ELSE Cleared(waypoints))
    /\ UNCHANGED <<graph, original_weights, node_positions, end_node,
                   original_waypoint_order, optimize, jams, blocks, lights,
                   suppress_path_errors,
                   optimal_order, discarded_clocks, closed, clock, pc, dialogs>>

\* _handle_location_selected_for_end with a 'node' entry of the search
LocationSelectedForEnd(id) ==
    /\ IF id \notin NPKeys(node_positions) \/ id = start_node
       THEN /\ end_node' = end_node
            /\ Finish([waypoints |-> waypoints, drawn |-> drawn_path,
                       report |-> Rep("selection_error", 0, TRUE, 0)])
       ELSE /\ end_node' = id
            /\ Finish(IF start_node # None
                      THEN TriggerPathfinding(graph, start_node, id, waypoints,
                                              original_waypoint_order, optimize,
                                              suppress_path_errors, drawn_path)
                      ELSE Cleared(waypoints))
    /\ UNCHANGED <<graph, original_weights, node_positions, start_node,
                   original_waypoint_order, optimize, jams, blocks, lights,
                   suppress_path_errors,
                   optimal_order, discarded_clocks, closed, clock, pc, dialogs>>

\* the Find Path button: _trigger_pathfinding
FindPathClicked ==
    /\ Finish(TriggerPathfinding(graph, start_node, end_node, waypoints,
                                 original_waypoint_order, optimize,
                                 suppress_path_errors, drawn_path))
    /\ UNCHANGED <<graph, original_weights, node_positions, start_node, end_node,
                   original_waypoint_order, optimize, jams, blocks, lights,
                   suppress_path_errors,
                   optimal_order, discarded_clocks, closed, clock, pc, dialogs>>

\* closeEvent: stop_all_traffic_light_timers, then the window closes
CloseEvent ==
    /\ ~closed
    /\ closed' = TRUE
    /\ discarded_clocks' = discarded_clocks \cup TimerStates(StopAllTrafficLightTimers(lights))
    /\ lights' = <<>>
    /\ UNCHANGED <<graph, original_weights, node_positions, start_node, end_node,
                   waypoints, original_waypoint_order, optimize, jams, blocks, drawn_path,
                   report, suppress_path_errors, optimal_order, clock, pc, dialogs>>

\* the user ticks or unticks sidebar.optimize_route_checkbox
ToggleOptimize ==
    /\ optimize' = ~optimize
    /\ report' = NoReport
    /\ UNCHANGED <<graph, original_weights, node_positions, start_node, end_node,
                   waypoints, original_waypoint_order, jams, blocks, lights, drawn_path,
                   suppress_path_errors,
                   optimal_order, discarded_clocks, closed, clock, pc, dialogs>>

Next ==
    \/ \E pt \in {"start", "end", "waypoint"}, c \in Clicks : HandlePointSelected(pt, c)
    \/ ClearStartPoint
    \/ ClearEndPoint
    \/ ClearAllWaypoints
    \/ \E row \in 1..MaxStops : RemoveSelectedWaypoint(row)
    \/ \E line \in EffectLines, weight \in JamWeights : HandleTrafficLine(line, weight)
    \/ \E line \in EffectLines : HandleBlockWay(line)
    \/ \E line \in EffectLines : HandleTrafficLightFinalized(line)
    \/ \E i \in 1..MaxLights : TrafficLightStateUpdated(i)
    \/ \E i \in 1..MaxJams : RemoveJam(i)
    \/ \E i \in 1..MaxBlocks : RemoveBlock(i)
    \/ \E i \in 1..MaxLights : RemoveLight(i)
    \/ ClearTrafficJams
    \/ ClearBlockWays
    \/ ClearTrafficLights
    \/ ClearAllEffects
    \/ \E id \in SearchIds : LocationSelectedForStart(id)
    \/ \E id \in SearchIds : LocationSelectedForEnd(id)
    \/ FindPathClicked
    \/ ToggleOptimize

Spec == Init /\ [][Next]_vars

---------------------------------------------------------------------------
(* The session restricted to point selection and the stop list: no effect  *)
(* is ever drawn                                                           *)

EndClicks == {<<64, 16>>, <<0, 0>>, <<128, 0>>}

StopClicks == {<<64, 16>>, <<0, 32>>, <<128, 128>>}

NextSelect ==
    \/ \E pt \in {"start", "end"}, c \in EndClicks : HandlePointSelected(pt, c)
    \/ \E c \in StopClicks : HandlePointSelected("waypoint", c)
    \/ ClearStartPoint
    \/ ClearEndPoint
    \/ ClearAllWaypoints
    \/ \E row \in 1..MaxStops : RemoveSelectedWaypoint(row)
    \/ FindPathClicked
    \/ ToggleOptimize

SpecSelect == Init /\ [][NextSelect]_vars

---------------------------------------------------------------------------
(* The session restricted to the effect overlay, with the start and the    *)
(* end picked on the map along the road A-B                                *)

StartClicks == {<<0, 0>>, <<96, 16>>}

FinishClicks == {<<128, 0>>, <<96, 16>>}

\* clocks are set up on the road B-C only
LightLines == {<<<<128, 48>>, <<128, 80>>>>}

NextEffects ==
    \/ \E c \in StartClicks : HandlePointSelected("start", c)
    \/ \E c \in FinishClicks : HandlePointSelected("end", c)
    \/ \E line \in EffectLines, weight \in JamWeights : HandleTrafficLine(line, weight)
    \/ \E line \in EffectLines : HandleBlockWay(line)
    \/ \E line \in LightLines : HandleTrafficLightFinalized(line)
    \/ \E i \in 1..MaxLights : TrafficLightStateUpdated(i)
    \/ \E i \in 1..MaxJams : RemoveJam(i)
    \/ \E i \in 1..MaxBlocks : RemoveBlock(i)
    \/ \E i \in 1..MaxLights : RemoveLight(i)
    \/ ClearTrafficJams
    \/ ClearBlockWays
    \/ ClearTrafficLights
    \/ ClearAllEffects

SpecEffects == Init /\ [][NextEffects]_vars

---------------------------------------------------------------------------
(* The insertion of a virtual node taken on its own: the body of           *)
(* _handle_point_selected from line 880 on, for a requested (u, v, ratio)  *)
(* whatever the pair                                                       *)

InsertPairs == {<<A, B>>, <<D, A>>, <<A, D>>, <<B, D>>}

\* the result of _find_nearest_node_or_edge that asks for a virtual node at num/den
\* along u-v
VirtualSelection(u, v, num, den) ==
    [node_id |-> VirtualId(u, v, Round3(num, den)),
     pos |-> PointAt(NPPos(node_positions, u), NPPos(node_positions, v), num, den),
     is_virtual |-> TRUE, u |-> u, v |-> v, num |-> num, den |-> den]

InsertRequested(pt, u, v, num, den) ==
    /\ Cardinality({k \in NPKeys(node_positions) : IsVirtual(k)}
                     \cup {VirtualId(u, v, Round3(num, den))}) <= MaxVirtual
    /\ PointSelected(pt, VirtualSelection(u, v, num, den))

NextInsert ==
    \/ \E pt \in {"start", "end", "waypoint"}, e \in InsertPairs :
          InsertRequested(pt, e[1], e[2], 1, 4)
    \/ ClearStartPoint
    \/ ClearEndPoint
    \/ ClearAllWaypoints

SpecInsert == Init /\ [][NextInsert]_vars

---------------------------------------------------------------------------
(* Properties of the effect overlay                                        *)

\* the edges an effect line affects
Affected(G, l) == FindEdgesNearLine(G, l.p1, l.p2, EffectThreshold)

\* the weights one more recompute pass leaves, from the state as it is
PassWeights(G) == RecalculateEffects(G, original_weights, jams, blocks, lights)

\* C1: running the recompute pass twice in a row, with no edit and no light state
\* change in between, leaves every edge with the same weight after the second pass
\* as after the first.
C1_IdempotentRecompute == PassWeights(PassWeights(graph)).w = PassWeights(graph).w

JamOn(line, weight) == [p1 |-> line[1], p2 |-> line[2], weight |-> weight]

\* the weights after the recompute passes of "add E1, add E2, remove E1"
AddAddRemove(G, E1, E2) ==
    RecalculateEffects(
        RecalculateEffects(
            RecalculateEffects(G, original_weights, <<E1>>, <<>>, <<>>),
            original_weights, <<E1, E2>>, <<>>, <<>>),
        original_weights, <<E2>>, <<>>, <<>>)

\* C2: from a session with no effect, the weights after "add E1, add E2, remove E1"
\* (each followed by the recompute pass) equal, on every edge, the weights after
\* adding only E2.
C2_OrderIndependence ==
    (jams = <<>> /\ blocks = <<>> /\ lights = <<>>) =>
        \A l1 \in EffectLines, l2 \in EffectLines, wt \in JamWeights :
            AddAddRemove(graph, JamOn(l1, wt), JamOn(l2, wt)).w
              = RecalculateEffects(graph, original_weights, <<JamOn(l2, wt)>>, <<>>, <<>>).w

\* C3: every edge that an active block affects has weight +infinity, whatever jams
\* and traffic lights also affect it.
C3_BlockPrecedence ==
    \A i \in 1..Len(blocks) : \A e \in Affected(graph, blocks[i]) : graph.w[e] = Inf

\* an edge under a block, a jam and a light in its state of negative modifier
C3_BlockedUnderJamAndLight ==
    \E b \in 1..Len(blocks), j \in 1..Len(jams), k \in 1..Len(lights) :
        /\ LightModifier(lights[k].state) < 0
        /\ \E e \in Affected(graph, blocks[b]) :
              /\ e \in Affected(graph, jams[j])
              /\ e \in Affected(graph, lights[k])
              /\ graph.w[e] = Inf

\* the weight of an edge when no effect is active: its persisted weight, or for a
\* half of a split road the share of the road's weight that its ratio gives
RECURSIVE NoEffectWeight(_)
NoEffectWeight(e) ==
    IF e \in DOMAIN original_weights
    THEN original_weights[e]
    ELSE LET Share(x, other) ==
                 IF other = x[2]
                 THEN (NoEffectWeight(<<x[2], x[3]>>) * x[4]) \div 1000
                 ELSE (NoEffectWeight(<<x[2], x[3]>>) * (1000 - x[4])) \div 1000
         IN  IF IsVirtual(e[1]) /\ e[2] \in {e[1][2], e[1][3]}
             THEN Share(e[1], e[2])
             ELSE Share(e[2], e[1])

\* the weight the active effects give an edge
LiveWeight(e) ==
    IF \E i \in 1..Len(blocks) : e \in Affected(graph, blocks[i])
    THEN Inf
    ELSE NoEffectWeight(e)
         + SumW([i \in 1..Len(jams) |->
                   IF e \in Affected(graph, jams[i]) THEN jams[i].weight ELSE 0])
         + SumW([i \in 1..Len(lights) |->
                   IF e \in Affected(graph, lights[i])
                   THEN LightModifier(lights[i].state) ELSE 0])

\* C4: every edge has its no-effect weight plus the magnitudes of the active jams
\* and the current modifiers of the active lights that affect it, each counted
\* once, or +infinity under an active block.
C4_LiveWeight == \A e \in DOMAIN graph.w : graph.w[e] = LiveWeight(e)

\* C5: a step that inserts a virtual node x at ratio r on the edge (u, v) of weight
\* w gives w(u,x) = r*w and w(x,v) = (1-r)*w, which add up to w.
C5_WeightSplit ==
    [][\A x \in Range(graph'.nodes) \ Range(graph.nodes) :
          LET Split(w, wux, wxv) ==
                  IF w = Inf
                  THEN wux = Inf /\ wxv = Inf
                  ELSE /\ 1000 * wux = x[4] * w
                       /\ 1000 * wxv = (1000 - x[4]) * w
                       /\ wux + wxv = w
          IN  /\ HasEdge(graph, x[2], x[3])
              /\ Split(graph.w[<<x[2], x[3]>>], graph'.w[<<x[2], x>>], graph'.w[<<x, x[3]>>])
      ]_vars

\* a virtual node on a road of three times the weight the road is loaded with
C5_InsertedUnderJam ==
    \E x \in Range(graph.nodes) :
        /\ IsVirtual(x)
        /\ 1000 * graph.w[<<x[2], x>>] = 3 * x[4] * original_weights[<<x[2], x[3]>>]
        /\ 1000 * graph.w[<<x, x[3]>>] = 3 * (1000 - x[4]) * original_weights[<<x[2], x[3]>>]

\* C6: asking again for the virtual node of a (u, v, ratio) that is already in the
\* graph gives the same id, adds no node and no edge and changes no weight.
C6_VirtualIdempotence ==
    \A c \in StartClicks \cup FinishClicks :
        LET Again(f) ==
                (f.is_virtual /\ HasNode(graph, f.node_id)) =>
                    /\ f.node_id = VirtualId(f.u, f.v, Round3(f.num, f.den))
                    /\ NPSet(node_positions, f.node_id, f.pos) = node_positions
                    /\ AddVirtualNodeToGraph(graph, node_positions, f.node_id,
                                             f.u, f.v, f.num, f.den) = graph
        IN  Again(FindNearestNodeOrEdge(node_positions, graph, c))

\* the same spot picked as the start and then as the end, after the weight of its
\* road has changed
C6_PickedTwice ==
    /\ report.kind = "selection_error"
    /\ \E c \in StartClicks \cup FinishClicks :
          LET Twice(f) ==
                  /\ f.is_virtual
                  /\ f.node_id \in {start_node, end_node}
                  /\ HasNode(graph, f.node_id)
                  /\ graph.w[<<f.u, f.v>>] # original_weights[<<f.u, f.v>>]
          IN  Twice(FindNearestNodeOrEdge(node_positions, graph, c))

\* C10: a route handed to the display crosses no edge of weight +infinity and has
\* a finite total cost.
C10_NoRouteOverBlockedEdge ==
    report.kind = "route" =>
        /\ report.cost # Inf
        /\ \A i \in 1..(Len(drawn_path) - 1) :
              HasEdge(graph, drawn_path[i], drawn_path[i + 1])
                  => graph.w[<<drawn_path[i], drawn_path[i + 1]>>] # Inf

---------------------------------------------------------------------------
(* Properties of the virtual nodes                                         *)

Referenced == {start_node, end_node} \cup Range(Ids(waypoints))

\* C8: every virtual node in the graph is the start, the end or one of the stops.
C8_NoOrphanVirtualNodes ==
    \A n \in Range(graph.nodes) : IsVirtual(n) => n \in Referenced

\* C9: the start, the end and every stop are nodes of the graph.
C9_NoDanglingReferences ==
    \A n \in Referenced \ {None} : HasNode(graph, n)

---------------------------------------------------------------------------
(* The stop-order solver taken on its own: _solve_tsp_route called with a  *)
(* start, an end and a stop list on a map whose weights are drawn at the   *)
(* start                                                                   *)

F == <<5>>

\* a map of five places with a road in both directions between any two of them
SolverNodes == <<A, B, C, D, F>>

SolverPairs == {<<i, j>> : i \in 1..Len(SolverNodes), j \in 1..Len(SolverNodes)} \ 
                 {<<i, i>> : i \in 1..Len(SolverNodes)}

\* the roads whose weight is drawn: one per pair of places, but the road A-F
DrawnRoads == {e \in SolverPairs : e[1] < e[2] /\ e # <<1, Len(SolverNodes)>>}

SolverWeights == {16, 48, Inf}

\* the map with weight wf[<<i, j>>] on the road between places i < j, both ways
SolverMap(wf) ==
    LET Road(i, j) ==
            IF <<i, j>> \in DrawnRoads THEN wf[<<i, j>>]
            ELSE IF <<j, i>> \in DrawnRoads THEN wf[<<j, i>>]
            ELSE 16
    IN  [nodes |-> SolverNodes,
         pos   |-> LoadedGraph.pos @@ (F :> <<64, 64>>),
         adj   |-> [n \in Range(SolverNodes) |-> Without(SolverNodes, n)],
         w     |-> [e \in {<<SolverNodes[x[1]], SolverNodes[x[2]]>> : x \in SolverPairs} |->
                      Road(CHOOSE i \in 1..Len(SolverNodes) : SolverNodes[i] = e[1],
                           CHOOSE j \in 1..Len(SolverNodes) : SolverNodes[j] = e[2])]]

\* the loaded map with every road blocked
BlockedGraph == [LoadedGraph EXCEPT !.w = [e \in DOMAIN LoadedGraph.w |-> Inf]]

\* a stop of the sidebar at node n
StopAt(G, n) == [node_id |-> n, pos |-> IF HasNode(G, n) THEN G.pos[n] ELSE <<0, 0>>]

StopList(G, ns) == [i \in 1..Len(ns) |-> StopAt(G, ns[i])]

\* the session with map G, start s, end e and the stops at ns
SolverSession(G, s, e, ns) ==
    /\ graph = G
    /\ original_weights = G.w
    /\ node_positions = [i \in 1..Len(G.nodes) |-> <<G.nodes[i], G.pos[G.nodes[i]]>>]
    /\ start_node = s
    /\ end_node = e
    /\ waypoints = StopList(G, ns)
    /\ original_waypoint_order = StopList(G, ns)
    /\ optimize = TRUE
    /\ jams = <<>>
    /\ blocks = <<>>
    /\ lights = <<>>
    /\ drawn_path = <<>>
    /\ report = NoReport
    /\ suppress_path_errors = FALSE
    /\ optimal_order = NoOrder
    /\ discarded_clocks = {}
    /\ closed = FALSE
    /\ clock = NoClock
    /\ pc = "idle"
    /\ dialogs = 0

\* the places of the five-place map that can be stops, in the order they are added
SolverStops == <<B, C, D>>

InitSolver ==
    \/ \E wf \in [DrawnRoads -> SolverWeights], k \in 0..Len(SolverStops) :
          SolverSession(SolverMap(wf), A, F, SubSeq(SolverStops, 1, k))
    \/ \E G \in {LoadedGraph, BlockedGraph}, k \in 0..MaxStops,
           ns \in [1..MaxStops -> {B, D, <<9>>}] :
          SolverSession(G, A, C, SubSeq(ns, 1, k))
    \/ \E G \in {LoadedGraph, BlockedGraph}, ns \in [1..(BruteForceLimit + 1) -> {B, D}] :
          SolverSession(G, A, C, ns)

\* optimal_order = self._solve_tsp_route(start, end, waypoints)
CallSolveTspRoute ==
    /\ optimal_order = NoOrder
    /\ optimal_order' = SolveTspRoute(graph, start_node, end_node, waypoints)
    /\ UNCHANGED <<graph, original_weights, node_positions, start_node, end_node,
                   waypoints, original_waypoint_order, optimize, jams, blocks, lights,
                   drawn_path, report, suppress_path_errors, discarded_clocks, closed, clock, pc, dialogs>>

NextSolver == CallSolveTspRoute

SpecSolver == InitSolver /\ [][NextSolver]_vars

---------------------------------------------------------------------------
(* Properties of the stop-order solver                                     *)

\* the points the solver was called with
SolverPoints == AllPoints(start_node, end_node, waypoints)

\* the returned order, as indices of the cost matrix
ReturnedOrder == [i \in DOMAIN optimal_order.order |-> optimal_order.order[i] + 1]

\* the total costs of all the orders of the stops, on the cost matrix
OrderCosts ==
    {RouteCost(graph, SolverPoints, p) : p \in Perms(2..(Len(SolverPoints) - 1))}

\* C13: for 2 to 7 stops the order _solve_tsp_route returns has, on the pairwise
\* cost matrix, a total cost start -> order -> end equal to the least total cost
\* over all the permutations of the stops.
C13_BruteForceOptimal ==
    (optimal_order.kind = "ok" /\ Len(waypoints) >= 2 /\ Len(waypoints) <= BruteForceLimit)
        => RouteCost(graph, SolverPoints, ReturnedOrder) = MinOf(OrderCosts)

\* three stops for which the solver returned another order than the one given,
\* strictly cheaper than it
C13_ReorderedCheaper ==
    /\ optimal_order.kind = "ok"
    /\ Len(waypoints) = 3
    /\ optimal_order.order # <<1, 2, 3>>
    /\ RouteCost(graph, SolverPoints, ReturnedOrder)
         < RouteCost(graph, SolverPoints, <<2, 3, 4>>)

\* C14: for every start, end and stop list of length k >= 0, _solve_tsp_route
\* returns a list that holds each index of the stop list exactly once (indices
\* count from 1 here: <<>> for k = 0, <<1>> for k = 1).
C14_OrderIsPermutation ==
    optimal_order # NoOrder =>
        /\ optimal_order.kind = "ok"
        /\ Len(optimal_order.order) = Len(waypoints)
        /\ Range(optimal_order.order) = 1..Len(waypoints)

\* C15: with two stops or more, all of them nodes of the graph, the solver
\* returns a permutation of the stop indices without raising, also when every
\* order has total cost +infinity; and in the brute-force branch the returned
\* order has a finite total cost when some order has one.
C15_InfiniteCostsHandled ==
    (optimal_order # NoOrder /\ Len(waypoints) >= 2
       /\ ~MatrixRaises(graph, SolverPoints)) =>
        /\ optimal_order.kind = "ok"
        /\ Range(optimal_order.order) = 1..Len(waypoints)
        /\ (Len(waypoints) <= BruteForceLimit /\ OrderCosts # {Inf})
              => RouteCost(graph, SolverPoints, ReturnedOrder) # Inf

\* C16: for 3 stops with symmetric pairwise costs (taken here all finite), the
\* brute-force branch and the nearest-neighbour branch, run on the same cost
\* matrix, give the same order.
C16_BranchesAgree ==
    LET I == 1..Len(SolverPoints)
    IN  (/\ optimal_order.kind = "ok"
         /\ Len(waypoints) = 3
         /\ \A i, j \in I :
               /\ DistMatrix(graph, SolverPoints, i, j) = DistMatrix(graph, SolverPoints, j, i)
               /\ DistMatrix(graph, SolverPoints, i, j) # Inf)
          => optimal_order = NearestNeighbour(graph, SolverPoints, 2..(Len(SolverPoints) - 1),
                                              1, <<>>)

---------------------------------------------------------------------------
(* The session restricted to the traffic lights, up to the closing of the  *)
(* window: no handler runs once closeEvent has                             *)

NextClocks ==
    \/ \E c \in StartClicks : ~closed /\ HandlePointSelected("start", c)
    \/ \E c \in FinishClicks : ~closed /\ HandlePointSelected("end", c)
    \/ \E line \in EffectLines : ~closed /\ HandleTrafficLightFinalized(line)
    \/ \E i \in 1..MaxLights : ~closed /\ TrafficLightStateUpdated(i)
    \/ \E i \in 1..MaxLights : ~closed /\ RemoveLight(i)
    \/ ~closed /\ ClearTrafficLights
    \/ ~closed /\ ClearAllEffects
    \/ CloseEvent

SpecClocks == Init /\ [][NextClocks]_vars

\* C17: after any sequence of light placements, removals of a single light,
\* clear-lights, clear-all and the closing of the window, every clock that was
\* dropped from the active lights had been stopped, so none of them can emit a
\* state change any more.
C17_NoLeakedClocks == TRUE \notin discarded_clocks

\* the window closed with no active light left, after clocks were dropped
C17_ClosedAfterDrops == closed /\ lights = <<>> /\ FALSE \in discarded_clocks

---------------------------------------------------------------------------
(* The session restricted to routes through stops on a map with blocked    *)
(* roads                                                                   *)

RouteStartClicks == {<<0, 0>>, <<0, 128>>}

RouteEndClicks == {<<128, 128>>, <<0, 0>>}

RouteStopClicks == {<<128, 0>>, <<128, 128>>, <<64, 16>>}

NextRoute ==
    \/ \E c \in RouteStartClicks : HandlePointSelected("start", c)
    \/ \E c \in RouteEndClicks : HandlePointSelected("end", c)
    \/ \E c \in RouteStopClicks : HandlePointSelected("waypoint", c)
    \/ \E row \in 1..MaxStops : RemoveSelectedWaypoint(row)
    \/ ClearAllWaypoints
    \/ ToggleOptimize
    \/ FindPathClicked
    \/ \E line \in EffectLines : HandleBlockWay(line)
    \/ \E i \in 1..MaxBlocks : RemoveBlock(i)

SpecRoute == Init /\ [][NextRoute]_vars

\* the number of stops of a session that stops are removed from
RemovalStops == 3

\* a session with RemovalStops stops, one of them possibly at a node that is gone
InitRemoval ==
    \E G \in {LoadedGraph, BlockedGraph}, ns \in [1..RemovalStops -> {B, D, <<9>>}] :
        SolverSession(G, A, C, ns)

\* removing stops, one after the other, with the optimisation switched on and
\* off, while roads get blocked and unblocked
NextRemoval ==
    \/ \E row \in 1..RemovalStops : RemoveSelectedWaypoint(row)
    \/ ToggleOptimize
    \/ \E line \in EffectLines : HandleBlockWay(line)
    \/ \E i \in 1..MaxBlocks : RemoveBlock(i)

SpecRemoval == InitRemoval /\ [][NextRemoval]_vars

---------------------------------------------------------------------------
(* The session on a map with one long road, where two clicks a pixel apart *)
(* give the same virtual node id: the ratio along the road is kept to      *)
(* three decimals in the id                                                *)

RoadLength == 1250

\* the map: the road A-B of length RoadLength, and the side road A-C
LongRoadGraph ==
    [nodes |-> <<A, B, C>>,
     pos   |-> (A :> <<0, 0>>) @@ (B :> <<RoadLength, 0>>) @@ (C :> <<0, 128>>),
     adj   |-> (A :> <<B, C>>) @@ (B :> <<A>>) @@ (C :> <<A>>),
     w     |-> (<<A, B>> :> 96) @@ (<<B, A>> :> 96) @@ (<<A, C>> :> 16)
               @@ (<<C, A>> :> 16)]

InitLongRoad ==
    /\ graph = LongRoadGraph
    /\ original_weights = LongRoadGraph.w
    /\ node_positions = [i \in 1..Len(LongRoadGraph.nodes) |->
                           <<LongRoadGraph.nodes[i],
                             LongRoadGraph.pos[LongRoadGraph.nodes[i]]>>]
    /\ start_node = None
    /\ end_node = None
    /\ waypoints = <<>>
    /\ original_waypoint_order = <<>>
    /\ optimize = FALSE
    /\ jams = <<>>
    /\ blocks = <<>>
    /\ lights = <<>>
    /\ drawn_path = <<>>
    /\ report = NoReport
    /\ suppress_path_errors = FALSE
    /\ optimal_order = NoOrder
    /\ discarded_clocks = {}
    /\ closed = FALSE
    /\ clock = NoClock
    /\ pc = "idle"
    /\ dialogs = 0

\* clicks at the ends of the long road and along it; the second of the two a pixel
\* apart is 15 pixels off the road, out of reach of the node the first created
LongRoadClicks == {<<0, 0>>, <<RoadLength, 0>>, <<127, 5>>, <<128, 15>>, <<600, 5>>}

\* a map click that picks the start or the end
SelectOnMap == \E pt \in {"start", "end"}, c \in LongRoadClicks : HandlePointSelected(pt, c)

\* a choice in the search boxes, one of them of a place that is not on the map
SelectBySearch ==
    \E id \in {A, B, C, <<9>>} : LocationSelectedForStart(id) \/ LocationSelectedForEnd(id)

NextLongRoad ==
    \/ SelectOnMap
    \/ SelectBySearch
    \/ ClearStartPoint
    \/ ClearEndPoint

SpecLongRoad == InitLongRoad /\ [][NextLongRoad]_vars

---------------------------------------------------------------------------
(* Properties of the route computation                                     *)

\* the points of the route: the start, the stops in their order, the end
RoutePoints == AllPoints(start_node, end_node, waypoints)

\* segment i (from 0) of the route has no path or holds an edge of weight +infinity
SegmentFails(i) ==
    LET Fails(a, b) ==
            IF HasEdge(graph, a, b)
            THEN graph.w[<<a, b>>] = Inf
            ELSE LET NoWay(fp) == fp.kind # "path" \/ HasInfiniteEdge(graph, fp.path)
                 IN  NoWay(FindPath(graph, a, b))
    IN  Fails(RoutePoints[i + 1], RoutePoints[i + 2])

FailingSegments == {i \in 0..(Len(RoutePoints) - 2) : SegmentFails(i)}

\* the last handler computed a route through the stops as they are now
RouteComputed ==
    /\ start_node # None
    /\ end_node # None
    /\ report.kind \in {"route", "no_path", "blocked", "error"}

\* C11: when some segment of the ordered stop list has no path or holds a
\* +infinity edge, the route computation reports a failure with the index of the
\* first such segment and displays no route.
C11_ConclusiveFailure ==
    (RouteComputed /\ FailingSegments # {}) =>
        /\ report.kind \in {"no_path", "blocked", "error"}
        /\ report.seg = MinOf(FailingSegments)
        /\ drawn_path = <<>>

\* what one more route computation gives, from the stop list wps with the route
\* dp displayed
Recomputed(wps, dp) ==
    TriggerPathfinding(graph, start_node, end_node, wps, original_waypoint_order,
                       optimize, suppress_path_errors, dp)

\* C12: for a fixed graph, start, end and stop order, repeated route computations
\* return the same node sequence and the same total cost and leave the stop order
\* as it was.
C12_StopOrderKept ==
    (start_node # None /\ end_node # None) =>
        LET Repeat(r1) ==
                LET Same(r2) ==
                        /\ r2.drawn = r1.drawn
                        /\ r2.report = r1.report
                        /\ r2.waypoints = waypoints
                IN  r1.waypoints = waypoints /\ Same(Recomputed(r1.waypoints, r1.drawn))
        IN  Repeat(Recomputed(waypoints, drawn_path))

\* C12, amended: with the graph, the start and the end as they are, computing the
\* route again after a route computation gives the same node sequence and the
\* same total cost and leaves the stop list in the order the first computation
\* left it in.
C12_RepeatedRouteSame ==
    (start_node # None /\ end_node # None) =>
        LET Repeat(r1) ==
                LET Same(r2) ==
                        /\ r2.drawn = r1.drawn
                        /\ r2.report = r1.report
                        /\ r2.waypoints = r1.waypoints
                IN  Same(Recomputed(r1.waypoints, r1.drawn))
        IN  Repeat(Recomputed(waypoints, drawn_path))

\* a route through two different stops that the solver could order either way at
\* the same total cost
C12_RouteWithTiedOrders ==
    /\ optimize
    /\ report.kind = "route"
    /\ Len(waypoints) = 2
    /\ waypoints[1].node_id # waypoints[2].node_id
    /\ RouteCost(graph, RoutePoints, <<2, 3>>) = RouteCost(graph, RoutePoints, <<3, 2>>)
    /\ RouteCost(graph, RoutePoints, <<2, 3>>) # Inf

\* C18: a step that ends in the recompute pass changes no node and no edge of
\* the graph, only weights, and leaves the start, the end and the stop list with
\* its order as they were; the effects it runs with are the active ones.
C18_RecomputeFrame ==
    [][RecalculateEffectsAndPath(jams', blocks', lights') =>
          /\ Range(graph'.nodes) = Range(graph.nodes)
          /\ DOMAIN graph'.w = DOMAIN graph.w
          /\ start_node' = start_node
          /\ end_node' = end_node
          /\ waypoints' = waypoints
      ]_vars

\* the outcome of a route computation apart from whether a failure is shown
Observable(r) == <<r.waypoints, r.drawn, r.report.kind, r.report.seg, r.report.cost>>

\* C20: a route computation run with _suppress_path_errors true reaches the same
\* outcome and leaves the same state as one run with it false, showing no failure
\* the other does not show; and the flag is false whenever no handler is running.
C20_SuppressionSameOutcome ==
    /\ suppress_path_errors = FALSE
    /\ LET Agree(t, f) == Observable(t) = Observable(f) /\ (t.report.shown => f.report.shown)
       IN  /\ Agree(TriggerWithWaypoints(graph, start_node, end_node, waypoints,
                                         original_waypoint_order, optimize, TRUE, drawn_path),
                    TriggerWithWaypoints(graph, start_node, end_node, waypoints,
                                         original_waypoint_order, optimize, FALSE, drawn_path))
           /\ Agree(TriggerPathfinding(graph, start_node, end_node, waypoints,
                                       original_waypoint_order, optimize, TRUE, drawn_path),
                    TriggerPathfinding(graph, start_node, end_node, waypoints,
                                       original_waypoint_order, optimize, FALSE, drawn_path))

\* a stop was removed and the route through the remaining ones failed, unshown
C20_SuppressedFailure ==
    /\ report.kind \in {"no_path", "error"}
    /\ ~report.shown
    /\ waypoints # <<>>
    /\ drawn_path = <<>>

\* a stop was removed and the solver raised while ordering the remaining ones
RemovalRaised ==
    /\ report.kind = "uncaught"
    /\ Len(waypoints) > 1
    /\ suppress_path_errors = FALSE

\* the start and the end differ when both are set
StartDiffersFromEnd == (start_node # None /\ end_node # None) => start_node # end_node

\* a step in which a selection on the map or in the search boxes is rejected
SelectionRejected == (SelectOnMap \/ SelectBySearch) /\ report'.kind = "selection_error"

\* C19: after any sequence of map clicks, search selections and clears the start
\* and the end are never the same node when both are set, and a rejected attempt
\* (start equal to end, or an unknown node id) leaves the start, the end, the
\* graph and node_positions unchanged.
C19_StartDiffersFromEnd ==
    [][/\ StartDiffersFromEnd'
       /\ SelectionRejected => UNCHANGED <<start_node, end_node, graph, node_positions>>
      ]_vars

---------------------------------------------------------------------------
(* Properties of the failure kinds and of rerouting                        *)

\* the nodes that can be reached from the set S over edges of any weight
RECURSIVE ReachableFrom(_, _)
ReachableFrom(G, S) ==
    LET Grown(T) == IF T = S THEN S ELSE ReachableFrom(G, T)
    IN  Grown(S \cup UNION {Range(G.adj[n]) : n \in S})

\* a and b are connected in the graph, over blocked edges or not
Connected(G, a, b) == HasNode(G, a) /\ HasNode(G, b) /\ b \in ReachableFrom(G, {a})

\* C21: when a route computation fails on a pair of points that are connected in
\* the graph, every connecting path holding a +infinity edge, it reports the kind
\* Blocked; when the pair is not connected at all it reports no path found.
C21_BlockedDistinguished ==
    (RouteComputed /\ report.kind \in {"no_path", "blocked"}) =>
        LET Kind(a, b) == IF Connected(graph, a, b) THEN "blocked" ELSE "no_path"
        IN  report.kind = Kind(RoutePoints[report.seg + 1], RoutePoints[report.seg + 2])

\* the simple paths to t that extend p, over edges of any weight
RECURSIVE SimplePaths(_, _, _)
SimplePaths(G, p, t) ==
    IF p[Len(p)] = t
    THEN {p}
    ELSE UNION {SimplePaths(G, Append(p, n), t) :
                  n \in {m \in Range(G.adj[p[Len(p)]]) : m \notin Range(p)}}

\* the costs of the start-to-end paths that hold no +infinity edge
FiniteCosts ==
    IF HasNode(graph, start_node) /\ HasNode(graph, end_node)
    THEN {PathCost(graph, p) : p \in SimplePaths(graph, <<start_node>>, end_node)} \ {Inf}
    ELSE {}

\* the edges of the graph that lie under one of the block ways
BlockedEdges ==
    UNION {FindEdgesNearLine(graph, blocks[i].p1, blocks[i].p2, EffectThreshold) :
             i \in 1..Len(blocks)}

\* the edges the displayed route runs over
RouteEdges == {<<drawn_path[i], drawn_path[i + 1]>> : i \in 1..(Len(drawn_path) - 1)}

\* C22: when a block way is drawn over an edge of the displayed start-to-end
\* route and a path over finite edges still exists, the route computed after the
\* block holds no blocked edge and costs the least any finite start-to-end path
\* costs.
C22_BlockingReroutes ==
    [][\A line \in EffectLines :
          (/\ HandleBlockWay(line)
           /\ start_node # None /\ end_node # None /\ waypoints = <<>>
           /\ RouteEdges \cap FindEdgesNearLine(graph, line[1], line[2], EffectThreshold) # {}
           /\ FiniteCosts' # {})
          => /\ report'.kind = "route"
             /\ RouteEdges' # {}
             /\ RouteEdges' \cap BlockedEdges' = {}
             /\ report'.cost = MinOf(FiniteCosts')
      ]_vars

\* the route from A to C went over B; with the road B-C blocked it is the road A-C
C22_ReroutedAroundBlock ==
    /\ blocks # <<>>
    /\ waypoints = <<>>
    /\ report.kind = "route"
    /\ start_node = A /\ end_node = C
    /\ drawn_path = <<A, C>>
    /\ report.cost = LoadedGraph.w[<<A, C>>]
    /\ <<B, C>> \in BlockedEdges
    /\ LoadedGraph.w[<<A, B>>] + LoadedGraph.w[<<B, C>>] < report.cost

---------------------------------------------------------------------------
(* Properties of the recompute pass and of the light clocks                *)

\* C23: after _clear_all_effects no traffic-light clock is running, the set of
\* active lights is empty, and every edge left in the graph, the edges of the
\* virtual nodes kept for the start and the end included, has the weight it has
\* when no effect was ever applied.
C23_ClearAllResets ==
    [][ClearAllEffects =>
          /\ lights' = <<>>
          /\ TRUE \notin discarded_clocks'
          /\ \A e \in DOMAIN graph'.w : graph'.w[e] = NoEffectWeight(e)'
      ]_vars

\* the route the routine computes on the weights of G
RouteOn(G, s, e, wps, orig, opt, supp, dp) ==
    IF s # None /\ e # None
    THEN TriggerPathfinding(G, s, e, wps, orig, opt, supp, dp)
    ELSE Cleared(wps)

\* C24: the recompute pass that follows a change of the effects resets every
\* edge of the snapshot that is in the graph, then adds the active jams, then
\* sets the edges under the active blocks to +infinity, then adds the modifiers
\* of the active lights, and computes the route only after the last weight
\* update: every such edge ends at its snapshot weight plus each jam and each
\* light once, or at +infinity under a block, and the route displayed is the one
\* of the new weights.
C24_RecomputeOrder ==
    [][<<jams', blocks', lights'>> # <<jams, blocks, lights>> =>
          LET After(r) ==
                  /\ report' = r.report
                  /\ report'.kind = "route" => drawn_path' = r.drawn
          IN  /\ \A e \in DOMAIN graph'.w \cap DOMAIN original_weights :
                    graph'.w[e] = LiveWeight(e)'
              /\ After(RouteOn(graph', start_node', end_node', waypoints',
                            original_waypoint_order', optimize',
                            suppress_path_errors', drawn_path'))
      ]_vars

\* a route displayed while a jam, a block and a light are active, over a road
\* whose weight the effects have changed
C24_RouteUnderAllEffects ==
    /\ jams # <<>>
    /\ blocks # <<>>
    /\ lights # <<>>
    /\ report.kind = "route"
    /\ \E e \in RouteEdges \cap DOMAIN original_weights : graph.w[e] # original_weights[e]

\* the lights whose state the step has changed
ChangedLights ==
    {i \in 1..Len(lights) : Len(lights') = Len(lights) /\ lights'[i].state # lights[i].state}

\* C25: every state change of an active light is followed by a recompute pass, so
\* after the step each edge near the light's line that no block way covers weighs
\* its no-effect weight plus each jam once plus the modifier of each light's new
\* state once: the modifier of the state the light has left is gone.
C25_LightChangeReachesWeights ==
    [][\A i \in ChangedLights :
          \A e \in Affected(graph', lights'[i]) : graph'.w[e] = LiveWeight(e)'
      ]_vars

---------------------------------------------------------------------------
(* One traffic-light clock on its own: constructed with its durations,     *)
(* ticked by its timer, stopped                                            *)

\* the durations the sidebar hands to a new clock, in seconds, all positive
ClockDurations == [LightStates -> 1..MaxDuration]

window == <<graph, original_weights, node_positions, start_node, end_node,
            waypoints, original_waypoint_order, optimize, jams, blocks, lights,
            drawn_path, report, suppress_path_errors, optimal_order,
            discarded_clocks, closed, pc, dialogs>>

\* TrafficLightInstance(durations), as handle_traffic_light_finalized constructs it
ClockStarts(d) ==
    /\ clock = NoClock
    /\ clock' = StartedClock(d)
    /\ UNCHANGED window

\* the timer of the clock fires
TimerTick ==
    /\ clock # NoClock
    /\ clock' = ClockTick(clock)
    /\ UNCHANGED window

\* TrafficLightInstance.stop()
ClockStops ==
    /\ clock # NoClock
    /\ clock' = StopClock(clock)
    /\ UNCHANGED window

NextLightCycle ==
    \/ \E d \in ClockDurations : ClockStarts(d)
    \/ TimerTick
    \/ ClockStops

SpecLightCycle == Init /\ [][NextLightCycle]_vars

\* the timer of a clock that is not stopped keeps firing
SpecLightCycleFair == SpecLightCycle /\ WF_vars(TimerTick)

\* the step counts one second of the current state down
CountsDown ==
    /\ clock.remaining > 1
    /\ clock' = [clock EXCEPT !.remaining = clock.remaining - 1]

\* the step ends the current state and enters the next one of the cycle
\* A -> B -> C -> A with its full duration
EntersNextState ==
    LET Following(s) == IF s = "A" THEN "B" ELSE IF s = "B" THEN "C" ELSE "A"
    IN  /\ clock.remaining = 1
        /\ clock' = [clock EXCEPT !.state = Following(clock.state),
                                  !.remaining = clock.durations[Following(clock.state)]]

\* C26: a clock starts in state A with the full duration of A remaining; each
\* tick of a running clock counts the remaining time down by one, and the tick
\* that brings it to zero moves the clock to the next state of the cycle
\* A -> B -> C -> A with that state's full duration remaining; the state and the
\* remaining time change in no other way; and a clock that is not stopped is in
\* each of its three states again and again.
C26_LightClockCycle ==
    /\ [][(clock = NoClock /\ clock' # NoClock) =>
              /\ clock'.state = "A"
              /\ clock'.remaining = clock'.durations["A"]
              /\ clock'.running
         ]_vars
    /\ [][(TimerTick /\ clock.running) => (CountsDown \/ EntersNextState)]_vars
    /\ [][(clock # NoClock /\ <<clock'.state, clock'.remaining>> # <<clock.state, clock.remaining>>)
              => (CountsDown \/ EntersNextState)
         ]_vars
    /\ \A s \in LightStates : []<>(~clock.running \/ clock.state = s)

\* a running clock part of the way through its third state
C26_CountingInThirdState ==
    /\ clock.running
    /\ clock.state = "C"
    /\ clock.remaining < clock.durations["C"]

\* C27: once a clock is stopped, no step changes its state or its remaining
\* time or starts it again, so its weight modifier stays the one of the state it
\* was stopped in; and stop() itself changes neither the state nor the
\* remaining time.
C27_StoppedClockFrozen ==
    /\ [][(clock # NoClock /\ ~clock.running) =>
              /\ clock' = clock
              /\ LightModifier(clock'.state) = LightModifier(clock.state)
         ]_vars
    /\ [][ClockStops =>
              /\ ~clock'.running
              /\ clock'.state = clock.state
              /\ clock'.remaining = clock.remaining
         ]_vars

\* a clock stopped in its second state, part of the way through it
C27_StoppedInSecondState ==
    /\ clock # NoClock
    /\ ~clock.running
    /\ clock.state = "B"
    /\ clock.remaining < clock.durations["B"]

---------------------------------------------------------------------------
(* The recompute pass step by step.  The window has one thread: a handler   *)
(* runs until it returns, and another event is delivered only by the event *)
(* loop, which runs between handlers and inside an open message box.  A    *)
(* message box is modal: it lets timer events through, not the user's.     *)

\* an event loop that delivers events wherever the running handler is
EventLoopRunsAnywhere(p) == TRUE

\* the event loop runs when no handler does: after a handler has returned, or
\* while a handler waits in QMessageBox.warning / information / critical
EventLoopRuns(p) == p = "idle"

\* the reset-and-reapply phase of the pass, and the step that follows each
WeightPhases == {"reset", "jams", "blocks", "lights"}

PhaseAfter(p) ==
    IF p = "reset" THEN "jams" ELSE IF p = "jams" THEN "blocks"
    ELSE IF p = "blocks" THEN "lights" ELSE "route"

\* what no step of the pass and no effect handler writes
session == <<original_weights, node_positions, start_node, end_node,
             original_waypoint_order, optimize, suppress_path_errors, optimal_order,
             discarded_clocks, closed, clock>>

\* handle_traffic_line, up to its call of the pass
BeginHandleTrafficLine(line, weight) ==
    /\ EventLoopRuns(pc) /\ dialogs = 0
    /\ Len(jams) < MaxJams
    /\ jams' = Append(jams, [p1 |-> line[1], p2 |-> line[2], weight |-> weight])
    /\ pc' = "reset"
    /\ UNCHANGED <<graph, waypoints, blocks, lights, drawn_path, report, dialogs, session>>

\* handle_block_way, up to its call of the pass
BeginHandleBlockWay(line) ==
    /\ EventLoopRuns(pc) /\ dialogs = 0
    /\ Len(blocks) < MaxBlocks
    /\ blocks' = Append(blocks, [p1 |-> line[1], p2 |-> line[2]])
    /\ pc' = "reset"
    /\ UNCHANGED <<graph, waypoints, jams, lights, drawn_path, report, dialogs, session>>

\* _handle_effects_changed after the removal of block i, up to its call of the pass
BeginRemoveBlock(i) ==
    /\ EventLoopRuns(pc) /\ dialogs = 0
    /\ i \in 1..Len(blocks)
    /\ blocks' = RemoveAt(blocks, i)
    /\ pc' = "reset"
    /\ UNCHANGED <<graph, waypoints, jams, lights, drawn_path, report, dialogs, session>>

\* handle_traffic_light_finalized, up to its call of the pass
BeginTrafficLightFinalized(line) ==
    /\ EventLoopRuns(pc) /\ dialogs = 0
    /\ Len(lights) < MaxLights
    /\ lights' = Append(lights, [p1 |-> line[1], p2 |-> line[2], state |-> "A",
                                 running |-> TRUE])
    /\ pc' = "reset"
    /\ UNCHANGED <<graph, waypoints, jams, blocks, drawn_path, report, dialogs, session>>

\* _traffic_light_state_updated, up to its call of the pass: a timer event, which
\* an open message box lets through
BeginTrafficLightStateUpdated(i) ==
    /\ EventLoopRuns(pc) /\ dialogs < MaxDialogs
    /\ i \in 1..Len(lights)
    /\ lights[i].running
    /\ lights' = [lights EXCEPT ![i].state = NextLightState(lights[i].state)]
    /\ pc' = "reset"
    /\ UNCHANGED <<graph, waypoints, jams, blocks, drawn_path, report, dialogs, session>>

\* the Find Path button: _trigger_pathfinding with no pass before it
BeginFindPath ==
    /\ EventLoopRuns(pc) /\ dialogs = 0
    /\ pc' = "route"
    /\ UNCHANGED <<graph, waypoints, jams, blocks, lights, drawn_path, report, dialogs,
                   session>>

\* _recalculate_effects_and_path: reset_graph_weights()
PassResets ==
    /\ pc = "reset"
    /\ graph' = ResetGraphWeights(graph, original_weights)
    /\ pc' = PhaseAfter(pc)
    /\ UNCHANGED <<waypoints, jams, blocks, lights, drawn_path, report, dialogs, session>>

\* _recalculate_effects_and_path: the loop over the traffic jams
PassAppliesJams ==
    /\ pc = "jams"
    /\ graph' = ApplyJams(graph, jams)
    /\ pc' = PhaseAfter(pc)
    /\ UNCHANGED <<waypoints, jams, blocks, lights, drawn_path, report, dialogs, session>>

\* _recalculate_effects_and_path: the loop over the block ways
PassAppliesBlocks ==
    /\ pc = "blocks"
    /\ graph' = ApplyBlocks(graph, blocks)
    /\ pc' = PhaseAfter(pc)
    /\ UNCHANGED <<waypoints, jams, blocks, lights, drawn_path, report, dialogs, session>>

\* _recalculate_effects_and_path: the loop over the active lights
PassAppliesLights ==
    /\ pc = "lights"
    /\ graph' = ApplyLights(graph, lights)
    /\ pc' = PhaseAfter(pc)
    /\ UNCHANGED <<waypoints, jams, blocks, lights, drawn_path, report, dialogs, session>>

\* _trigger_pathfinding, at the end of the pass or on its own: a route is drawn
\* and the handler returns, or a message box opens and the handler waits in it
\* with the display as it was
PassRoutes ==
    LET Routed(r) ==
            /\ waypoints' = r.waypoints
            /\ report' = r.report
            /\ drawn_path' = IF r.report.shown THEN drawn_path ELSE r.drawn
            /\ dialogs' = IF r.report.shown THEN dialogs + 1 ELSE dialogs
    IN  /\ pc = "route"
        /\ Routed(IF start_node # None /\ end_node # None
                  THEN TriggerPathfinding(graph, start_node, end_node, waypoints,
                                          original_waypoint_order, optimize,
                                          suppress_path_errors, drawn_path)
                  ELSE Cleared(waypoints))
        /\ pc' = "idle"
        /\ UNCHANGED <<graph, jams, blocks, lights, session>>

\* the user closes the innermost message box: its handler goes on to
\* map_viewer.clear_path() and returns
DialogClosed ==
    /\ pc = "idle"
    /\ dialogs > 0
    /\ dialogs' = dialogs - 1
    /\ drawn_path' = <<>>
    /\ UNCHANGED <<graph, waypoints, jams, blocks, lights, report, pc, session>>

\* the session after a start and an end were picked among the nodes of the map
InitPass ==
    \E s \in {A, B} : \E e \in {A, C} \ {s} :
        LET First(r) ==
                /\ drawn_path = r.drawn
                /\ report = r.report
        IN  /\ graph = LoadedGraph
            /\ original_weights = LoadedGraph.w
            /\ node_positions = [i \in 1..Len(LoadedGraph.nodes) |->
                                    <<LoadedGraph.nodes[i], LoadedGraph.pos[LoadedGraph.nodes[i]]>>]
            /\ start_node = s
            /\ end_node = e
            /\ First(TriggerPathfinding(LoadedGraph, s, e, <<>>, <<>>, FALSE, FALSE, <<>>))
            /\ waypoints = <<>>
            /\ original_waypoint_order = <<>>
            /\ optimize = FALSE
            /\ jams = <<>>
            /\ blocks = <<>>
            /\ lights = <<>>
            /\ suppress_path_errors = FALSE
            /\ optimal_order = NoOrder
            /\ discarded_clocks = {}
            /\ closed = FALSE
            /\ clock = NoClock
            /\ pc = "idle"
            /\ dialogs = 0

NextPass ==
    \/ \E line \in EffectLines : \E weight \in JamWeights : BeginHandleTrafficLine(line, weight)
    \/ \E line \in EffectLines : BeginHandleBlockWay(line)
    \/ \E i \in 1..MaxBlocks : BeginRemoveBlock(i)
    \/ \E line \in EffectLines : BeginTrafficLightFinalized(line)
    \/ \E i \in 1..MaxLights : BeginTrafficLightStateUpdated(i)
    \/ BeginFindPath
    \/ PassResets
    \/ PassAppliesJams
    \/ PassAppliesBlocks
    \/ PassAppliesLights
    \/ PassRoutes
    \/ DialogClosed

SpecPass == InitPass /\ [][NextPass]_vars

\* every edge of the snapshot carries all the active effects
FullyApplied ==
    \A e \in DOMAIN graph.w \cap DOMAIN original_weights : graph.w[e] = LiveWeight(e)

\* C28: no event is handled while a recompute pass is in its reset-and-reapply
\* phase: from a state in that phase the only step is the next step of the same
\* pass, which changes no effect, no selection, no route and opens no pass; and
\* whenever a route is about to be computed or requested, every snapshot edge
\* carries all the active effects.
C28_RecomputeAtomic ==
    /\ []((pc \in {"route", "idle"}) => FullyApplied)
    /\ [][(pc \in WeightPhases) =>
              /\ pc' = PhaseAfter(pc)
              /\ (UNCHANGED <<jams, blocks, lights, start_node, end_node, waypoints,
                              drawn_path, report, dialogs>>)
         ]_vars

\* a pass in the middle of its reset-and-reapply phase, started by a light's
\* timer while the route step of an earlier pass waits in its message box
C28_PassInsideMessageBox ==
    /\ pc = "blocks"
    /\ dialogs > 0
    /\ ~FullyApplied

---------------------------------------------------------------------------
(* Properties of the route assembly and of the cost matrix *)

\* the points pts occur in the path p in their order, from position i of pts and
\* position j of p on, consecutive equal points at one position
RECURSIVE InOrder(_, _, _, _)
InOrder(pts, p, i, j) ==
    IF i > Len(pts) THEN TRUE
    ELSE IF j > Len(p) THEN FALSE
    ELSE IF p[j] = pts[i] THEN InOrder(pts, p, i + 1, j)
    ELSE InOrder(pts, p, i, j + 1)

\* the sum of the weights of the edges of p, +infinity with an edge at +infinity
RECURSIVE EdgeWeightSum(_, _)
EdgeWeightSum(G, p) ==
    IF Len(p) < 2 THEN 0
    ELSE LET Plus(w, rest) == IF w = Inf \/ rest = Inf THEN Inf ELSE w + rest
         IN  Plus(G.w[<<p[1], p[2]>>], EdgeWeightSum(G, Tail(p)))

\* C29: a route computed for the stop list s0, s1, ..., sk and handed to the
\* display starts at s0, ends at sk, passes the stops in their order, repeats no
\* node twice in a row, follows edges of the graph only, and its reported cost is
\* the sum of the weights of those edges.
C29_RouteWellFormed ==
    [][(report'.kind = "route" /\ <<drawn_path', report'>> # <<drawn_path, report>>) =>
          LET WellFormed(pts, p, cost) ==
                  /\ p # <<>>
                  /\ p[1] = pts[1]
                  /\ p[Len(p)] = pts[Len(pts)]
                  /\ InOrder(pts, p, 1, 1)
                  /\ \A i \in 1..(Len(p) - 1) :
                        /\ p[i] # p[i + 1]
                        /\ <<p[i], p[i + 1]>> \in DOMAIN graph'.w
                  /\ cost = EdgeWeightSum(graph', p)
          IN  WellFormed(AllPoints(start_node', end_node', waypoints'), drawn_path',
                         report'.cost)
      ]_vars

\* a route through two stops, over more nodes than its stop list names
C29_RouteThroughTwoStops ==
    /\ report.kind = "route"
    /\ Len(waypoints) = 2
    /\ Len(drawn_path) > Len(RoutePoints)

\* the least sum of edge weights over the simple paths from a to b that hold no
\* edge at +infinity; +infinity when there is no such path
CheapestFinite(G, a, b) ==
    LET Least(cs) == IF cs = {} THEN Inf ELSE CHOOSE c \in cs : \A d \in cs : c <= d
    IN  Least({EdgeWeightSum(G, p) : p \in SimplePaths(G, <<a>>, b)} \ {Inf})

\* C30: in the cost matrix _solve_tsp_route builds over start, stops and end,
\* the entry of a point with itself is 0, the entry of two points joined by a
\* direct edge is the weight of that edge, and any other entry is the sum of the
\* edge weights of the path the search returns, +infinity when it returns none.
C30_PairwiseCostMatrix ==
    (optimal_order # NoOrder /\ ~MatrixRaises(graph, SolverPoints)) =>
        LET Expected(a, b) ==
                IF <<a, b>> \in DOMAIN graph.w THEN graph.w[<<a, b>>]
                ELSE CheapestFinite(graph, a, b)
        IN  \A i, j \in 1..Len(SolverPoints) :
                DistMatrix(graph, SolverPoints, i, j) =
                    IF i = j THEN 0 ELSE Expected(SolverPoints[i], SolverPoints[j])

\* a matrix built with a direct entry, a searched entry that a direct road would
\* not give, and an entry at +infinity
C30_MatrixOfAllKinds ==
    LET I == 1..Len(SolverPoints)
        Direct(i, j) == <<SolverPoints[i], SolverPoints[j]>> \in DOMAIN graph.w
        Entry(i, j) == DistMatrix(graph, SolverPoints, i, j)
    IN  /\ optimal_order.kind = "ok"
        /\ waypoints # <<>>
        /\ ~MatrixRaises(graph, SolverPoints)
        /\ \E i, j \in I : i # j /\ Direct(i, j) /\ Entry(i, j) # Inf
        /\ \E i, j \in I : i # j /\ ~Direct(i, j) /\ Entry(i, j) \notin {0, Inf}
        /\ \E i, j \in I : i # j /\ ~Direct(i, j) /\ Entry(i, j) = Inf

---------------------------------------------------------------------------
(* Properties of the nearest-neighbour branch and of repeated optimisation *)

\* the position in SolverPoints of the t-th stop of the returned order, and the
\* position the solver stood at when it appended that stop
VisitedAt(t) == optimal_order.order[t] + 1

StoodAt(t) == IF t = 1 THEN 1 ELSE VisitedAt(t - 1)

\* C31: for more than 7 stops the returned order holds every stop exactly once,
\* and each stop of it costs, from the point before it (the start for the first),
\* no more than any stop that comes later in the order: a stop at +infinity is
\* taken only when every stop not yet taken is at +infinity.
C31_NearestNeighbourStep ==
    (optimal_order.kind = "ok" /\ Len(waypoints) > BruteForceLimit) =>
        LET k == Len(waypoints)
            Cost(i, j) == DistMatrix(graph, SolverPoints, i, j)
        IN  /\ Len(optimal_order.order) = k
            /\ Range(optimal_order.order) = 1..k
            /\ \A t \in 1..k : \A u \in t..k :
                  Cost(StoodAt(t), VisitedAt(t)) <= Cost(StoodAt(t), VisitedAt(u))

\* an order over 8 stops that is not the order given, with a stop taken at a
\* finite cost and a later one taken at +infinity
C31_GreedyOrderWithInfiniteStep ==
    LET k == Len(waypoints)
        Cost(i, j) == DistMatrix(graph, SolverPoints, i, j)
    IN  /\ optimal_order.kind = "ok"
        /\ k > BruteForceLimit
        /\ optimal_order.order # [i \in 1..k |-> i]
        /\ \E t \in 1..k : Cost(StoodAt(t), VisitedAt(t)) \notin {0, Inf}
        /\ \E t \in 1..k : Cost(StoodAt(t), VisitedAt(t)) = Inf

\* C32: with optimisation on and the weights as they are, the stop list a route
\* computation leaves is left as it is by the next one: the solver, given a list
\* it has ordered, returns the order 1, 2, ..., k, in the brute-force branch and
\* in the nearest-neighbour branch.
C32_ReorderingIdempotent ==
    (optimal_order # NoOrder /\ Len(waypoints) > 1) =>
        LET Again(first) ==
                LET LeftAsIs(second, order) ==
                        /\ second.kind = "ok"
                        /\ second.wps = first.wps
                        /\ order = [kind |-> "ok", order |-> [i \in 1..Len(waypoints) |-> i]]
                IN  first.kind = "ok" =>
                        LeftAsIs(OrderedWaypoints(graph, start_node, end_node, first.wps,
                                              original_waypoint_order, TRUE),
                             SolveTspRoute(graph, start_node, end_node, first.wps))
        IN  Again(OrderedWaypoints(graph, start_node, end_node, waypoints,
                                   original_waypoint_order, TRUE))

\* the solver has moved a stop of a list of 8 in which two stops are the same node
C32_ReorderedListWithTies ==
    /\ optimal_order.kind = "ok"
    /\ Len(waypoints) > BruteForceLimit
    /\ \E t \in 1..Len(waypoints) : optimal_order.order[t] # t
    /\ \E i, j \in 1..Len(waypoints) : i # j /\ waypoints[i].node_id = waypoints[j].node_id

---------------------------------------------------------------------------
(* Properties of the insertion and removal of virtual nodes *)

\* the virtual nodes of a graph
VirtualNodes(G) == {n \in Range(G.nodes) : IsVirtual(n)}

\* C33: a step that inserts or removes virtual nodes leaves every edge between
\* nodes that stay as it was, in presence and in weight, the road the node is
\* inserted on included; the edges it adds touch an inserted node; a removed
\* node is gone with its node_positions entry and every edge that touched it;
\* inserting the node a click asks for and removing it again gives back the
\* graph as it was; and with no virtual node left the graph is the loaded one.
C33_InsertRemoveRoundTrip ==
    /\ [][LET added == Range(graph'.nodes) \ Range(graph.nodes)
              removed == Range(graph.nodes) \ Range(graph'.nodes)
          IN  /\ \A e \in DOMAIN graph.w :
                    IF e[1] \in removed \/ e[2] \in removed
                    THEN e \notin DOMAIN graph'.w
                    ELSE e \in DOMAIN graph'.w /\ graph'.w[e] = graph.w[e]
              /\ \A e \in DOMAIN graph'.w \ DOMAIN graph.w :
                    e[1] \in added \/ e[2] \in added
              /\ \A n \in removed : n \notin NPKeys(node_positions')
         ]_vars
    /\ [](\A c \in Clicks :
            LET Back(f) ==
                    LET RoundTrip(np1, G1) ==
                            /\ HasNode(G1, f.node_id)
                            /\ RemoveVirtualNode(G1, f.node_id) = graph
                            /\ f.node_id \notin NPKeys(NPDel(np1, f.node_id))
                        Inserted(np1) ==
                            RoundTrip(np1, AddVirtualNodeToGraph(graph, np1, f.node_id,
                                                                 f.u, f.v, f.num, f.den))
                    IN  (f.is_virtual /\ ~HasNode(graph, f.node_id)) =>
                            Inserted(NPSet(node_positions, f.node_id, f.pos))
            IN  Back(FindNearestNodeOrEdge(node_positions, graph, c)))
    /\ []((VirtualNodes(graph) = {}) => graph = LoadedGraph)

\* a routed state whose only virtual node has its four edges while the road it
\* lies on is still in the graph with the weight it was loaded with
C33_InsertedBesideRoad ==
    \E x \in VirtualNodes(graph) :
        /\ {<<x[2], x>>, <<x, x[2]>>, <<x, x[3]>>, <<x[3], x>>, <<x[2], x[3]>>}
              \subseteq DOMAIN graph.w
        /\ graph.w[<<x[2], x[3]>>] = LoadedGraph.w[<<x[2], x[3]>>]
        /\ Cardinality(VirtualNodes(graph)) = 1
        /\ report.kind = "route"

\* the places of the loaded map
RegularNodes == Range(LoadedGraph.nodes)

\* C34: a virtual node inserted on the edge (u, v) has the edges back to u and
\* from v only if the reverse edge (v, u) exists; no regular node reaches
\* another that it could not reach on the loaded map, and no cheapest cost
\* between two regular nodes is below the one on the loaded map.
C34_DirectionRespected ==
    /\ \A x \in VirtualNodes(graph) :
          (HasEdge(graph, x, x[2]) \/ HasEdge(graph, x[3], x)) => HasEdge(graph, x[3], x[2])
    /\ \A a \in RegularNodes, b \in RegularNodes :
          /\ Connected(graph, a, b) => Connected(LoadedGraph, a, b)
          /\ CheapestFinite(graph, a, b) >= CheapestFinite(LoadedGraph, a, b)

---------------------------------------------------------------------------
(* Properties of the weights after the recompute *)

\* the session restricted to a start point on or off the road A-B and to effects
\* drawn across A-B or B-C
NextWeights ==
    \/ \E c \in StartClicks : HandlePointSelected("start", c)
    \/ \E line \in EffectLines : HandleTrafficLightFinalized(line)
    \/ \E i \in 1..MaxLights : TrafficLightStateUpdated(i)
    \/ \E line \in EffectLines, weight \in JamWeights : HandleTrafficLine(line, weight)
    \/ \E line \in EffectLines : HandleBlockWay(line)
    \/ ClearAllEffects

SpecWeights == Init /\ [][NextWeights]_vars

\* C35: every edge weight of the graph is +infinity or a number that is not
\* below 0, whatever the jams, blocks and lights, a light whose modifier is
\* negative included.
C35_WeightsNonNegative == \A e \in DOMAIN graph.w : graph.w[e] >= 0

---------------------------------------------------------------------------
(* Properties of the stop list *)

\* how many times the stop x stands in the list s
Occurs(s, x) == Cardinality({i \in DOMAIN s : s[i] = x})

\* every stop of s stands in t at least as many times as in s
StopsAmong(s, t) == \A x \in Range(s) : Occurs(s, x) <= Occurs(t, x)

\* C36: the step of _remove_selected_waypoint leaves the stops it found less
\* the removed one, in some order; and a step that adds no stop leaves no stop
\* in the list that was not in it, with the optimisation on or off.
C36_RemovedStopStaysRemoved ==
    [][/\ \A row \in 1..MaxStops :
             RemoveSelectedWaypoint(row) =>
                 /\ StopsAmong(waypoints', RemoveAt(waypoints, row))
                 /\ StopsAmong(RemoveAt(waypoints, row), waypoints')
       /\ (original_waypoint_order' = original_waypoint_order) =>
             StopsAmong(waypoints', waypoints)
      ]_vars

---------------------------------------------------------------------------
(* Properties of the two route computations *)

\* C37: with a start, an end and no stops, _trigger_pathfinding and
\* _trigger_pathfinding_with_waypoints reach the same outcome on the same
\* graph, and the route either of them draws has the least total cost of the
\* start-to-end paths.
C37_SameRouteBothEntries ==
    (start_node # None /\ end_node # None /\ waypoints = <<>>) =>
        LET Cheapest(r) ==
                r.report.kind = "route" =>
                    r.report.cost = CheapestFinite(graph, start_node, end_node)
            Same(button, click) ==
                /\ Observable(button) = Observable(click)
                /\ Cheapest(button)
                /\ Cheapest(click)
        IN  Same(TriggerPathfinding(graph, start_node, end_node, <<>>,
                                    original_waypoint_order, optimize,
                                    suppress_path_errors, drawn_path),
                 TriggerWithWaypoints(graph, start_node, end_node, <<>>,
                                      original_waypoint_order, optimize,
                                      suppress_path_errors, drawn_path))

---------------------------------------------------------------------------
(* Properties of node_positions *)

\* the ids of virtual nodes that node_positions holds
VirtualKeys == {n \in NPKeys(node_positions) : IsVirtual(n)}

\* C38: node_positions holds an entry for a virtual node id if and only if the
\* node is in the graph, and the position of the entry is the position stored
\* on the node of the graph.
C38_PositionsMatchGraph ==
    /\ VirtualKeys = VirtualNodes(graph)
    /\ \A n \in VirtualNodes(graph) \cap VirtualKeys : NPPos(node_positions, n) = graph.pos[n]

---------------------------------------------------------------------------
(* Properties of the point a click selects *)

\* a map with the road A-B of 400 units, on which the ratios 0.05 and 0.95 lie
\* further than 15 units from the ends, and the side road A-C
SpanGraph ==
    [nodes |-> <<A, B, C>>,
     pos   |-> (A :> <<0, 0>>) @@ (B :> <<400, 0>>) @@ (C :> <<0, 128>>),
     adj   |-> (A :> <<B, C>>) @@ (B :> <<A>>) @@ (C :> <<A>>),
     w     |-> (<<A, B>> :> 80) @@ (<<B, A>> :> 80) @@ (<<A, C>> :> 16)
               @@ (<<C, A>> :> 16)]

InitBounds ==
    /\ graph = SpanGraph
    /\ original_weights = SpanGraph.w
    /\ node_positions = [i \in 1..Len(SpanGraph.nodes) |->
                           <<SpanGraph.nodes[i], SpanGraph.pos[SpanGraph.nodes[i]]>>]
    /\ start_node = None
    /\ end_node = None
    /\ waypoints = <<>>
    /\ original_waypoint_order = <<>>
    /\ optimize = FALSE
    /\ jams = <<>>
    /\ blocks = <<>>
    /\ lights = <<>>
    /\ drawn_path = <<>>
    /\ report = NoReport
    /\ suppress_path_errors = FALSE
    /\ optimal_order = NoOrder
    /\ discarded_clocks = {}
    /\ closed = FALSE
    /\ clock = NoClock
    /\ pc = "idle"
    /\ dialogs = 0

\* clicks along the road A-B: at the ratios 0.045, 0.05, 0.0525, 0.5, 0.9475,
\* 0.95 and 0.955, off the road, next to the node A, at 15 units from it, and
\* next to the virtual node of the ratio 0.0525
BoundClicks ==
    {<<18, 5>>, <<20, 5>>, <<21, 5>>, <<200, 5>>, <<379, 5>>, <<380, 5>>, <<382, 5>>,
     <<200, 30>>, <<9, 11>>, <<9, 12>>, <<22, 14>>}

NextBounds ==
    \/ \E pt \in {"start", "end"}, c \in BoundClicks : HandlePointSelected(pt, c)
    \/ ClearStartPoint
    \/ ClearEndPoint

SpecBounds == InitBounds /\ [][NextBounds]_vars

\* some node of node_positions lies less than 15 units from the click
NearNode(c) == \E i \in 1..Len(node_positions) : DistSq(node_positions[i][2], c) < NodeSnapSq

\* the edges of the graph within 25 units of the click that no edge is nearer than
NearestEdges(c) ==
    LET FromClick(e) == PointSegmentDistSq(c, NPPos(node_positions, e[1]),
                                           NPPos(node_positions, e[2]))
    IN  {e \in DOMAIN graph.w :
           /\ FromClick(e) < Sq(EdgeSnap)
           /\ \A d \in DOMAIN graph.w : FromClick(e) <= FromClick(d)}

\* the ratio at which the click projects onto the edge e lies strictly between
\* 0.05 and 0.95
InsideSpan(c, e) ==
    LET Strictly(num, den) == 20 * num > den /\ 20 * num < 19 * den
    IN  Strictly(ClampedDot(c, NPPos(node_positions, e[1]), NPPos(node_positions, e[2])),
                 DistSq(NPPos(node_positions, e[1]), NPPos(node_positions, e[2])))

\* C39: a click gives a virtual node only on an edge of the graph nearest to it,
\* at a ratio strictly between 0.05 and 0.95 and at the point of that ratio; a
\* click less than 15 units from a node, or projecting onto its nearest edge at
\* a ratio outside that span, selects a node that exists; and every node a step
\* adds to the graph is the virtual node of such a click.
C39_RatioBounds ==
    /\ [](\A c \in BoundClicks :
            LET Picked(f) ==
                    /\ f.is_virtual =>
                          /\ ~NearNode(c)
                          /\ <<f.u, f.v>> \in NearestEdges(c)
                          /\ 20 * f.num > f.den
                          /\ 20 * f.num < 19 * f.den
                          /\ f.pos = PointAt(NPPos(node_positions, f.u),
                                             NPPos(node_positions, f.v), f.num, f.den)
                          /\ f.node_id[4] \in 50..950
                    /\ (NearNode(c) \/ \A e \in NearestEdges(c) : ~InsideSpan(c, e)) =>
                          /\ ~f.is_virtual
                          /\ f.node_id \in NPKeys(node_positions)
            IN  Picked(FindNearestNodeOrEdge(node_positions, graph, c)))
    /\ [][\A x \in Range(graph'.nodes) \ Range(graph.nodes) :
             \E c \in BoundClicks :
                 LET Made(f) ==
                         /\ f.is_virtual
                         /\ f.node_id = x
                         /\ graph'.pos[x] = f.pos
                         /\ HasEdge(graph, f.u, f.v)
                 IN  Made(FindNearestNodeOrEdge(node_positions, graph, c))
         ]_vars

\* the virtual node at ratio 0.0525 of the road is the start and B the end; the
\* clicks at the ratios 0.95 and 0.955 give B, the click next to the virtual
\* node gives that node
C39_AtTheEndsOfTheSpan ==
    /\ start_node = VirtualId(A, B, 53)
    /\ graph.pos[start_node] = <<21, 0>>
    /\ end_node = B
    /\ FindNearestNodeOrEdge(node_positions, graph, <<380, 5>>).node_id = B
    /\ FindNearestNodeOrEdge(node_positions, graph, <<382, 5>>).node_id = B
    /\ FindNearestNodeOrEdge(node_positions, graph, <<22, 14>>).node_id = start_node
    /\ VirtualNodes(graph) = {start_node}
    /\ report.kind = "route"

====
